---- MODULE Spec2Model ----
(***************************************************************************)
(* Model of the Google Ad Manager statistics core of dashboard-wehub:      *)
(*   - gam-data-store.js : persistent day store, smart worker, manual     *)
(*     refresh, the two module-level flags                                 *)
(*   - index.js          : GET /api/googleadmanager/statistics             *)
(*   - google-ad-manager.js : per-account fetch with retry, fan-out        *)
(*                                                                         *)
(* Node runs one macrotask at a time.  Every await on I/O (sqlite, redis,  *)
(* HTTP, timers) is a suspension point and is a separate action here.  An  *)
(* await on an already settled promise only yields to the microtask queue: *)
(* no timer, I/O callback or new HTTP request runs before it resumes.      *)
(*                                                                         *)
(* Calendar dates are <<month, day>> pairs of one non-leap year.  They are *)
(* ordered as the ISO strings "YYYY-MM-DD" are ordered by sqlite; the JS   *)
(* Date loop is modelled in a zone without DST transitions (the container  *)
(* of src/unnamed/part_001 runs in UTC).                                   *)
(***************************************************************************)
EXTENDS Integers, Sequences, FiniteSets, TLC

VARIABLES
  workerRunning,          \* gam-data-store.js:16
  userRequestInProgress,  \* gam-data-store.js:18
  store,                  \* table gam_daily_data: date -> <<>> or <<report>>
  cache,                  \* table gam_cache + redis: <<start,end>> -> <<>> or <<report>>
  lastEvent,              \* what the step just taken logged or answered
  jpc, jkind, jday, jres, jhour,      \* invocations of runSmartWorker / manualRefresh
  rpc, rrange, rfetch, rres, rlog,    \* foreground statistics requests
  qpc, qStart, qEnd, qResult, qMissing,  \* a range read applied to `store`
  accts, fpc, batch, attempt, astate, slept, lastError, report,
                          \* one getMultiAccountStatistics call
  outcomes,               \* per account, what each of its attempts ended with
  rows, nextId, lastSaved, got,
                          \* the rows of gam_daily_data, the next AUTOINCREMENT id,
                          \* the last report saved per key, the last getDayData
  redisEnabled,           \* redis-cache.js:12
  redisUp,                \* whether a redis command issued now succeeds
  hot,                    \* redis: key -> <<>> or <<[text, exp]>>
  durable,                \* table gam_cache: key -> <<>> or <<[data, expires_at]>>
  now,                    \* the clock
  lastSet,                \* per key, the setCachedData that completed last
  hotOrigin,              \* per key, the expires_at of the entry whose text redis holds
  cleared,                \* per key, whether a clearUserCache completed since its last set
  cret,                   \* the cache call just made and what it returned
  daysIn, daysOut,        \* the argument of an aggregateDays call and what it returned
  reportsIn, currenciesIn, dimensionIn, ratesIn, metricsOut,
                          \* per account its report rows and currency, the dimension,
                          \* the exchange rates of a second run, what aggregateMetrics
                          \* returned in the two runs
  exchangeRatesCache,     \* google-ad-manager.js:48: [rates, lastUpdated]
  clock,                  \* Date.now() in periods of 12 hours
  xpc, xnow,              \* per getExchangeRates call in flight, its position and its `now`
  xret,                   \* what the getExchangeRates call that just returned did
  refreshed               \* the times at which a call replaced the rates

syncVars == <<workerRunning, userRequestInProgress, cache, lastEvent,
              jpc, jkind, jday, jres, jhour,
              rpc, rrange, rfetch, rres, rlog>>
rangeVars == <<qpc, qStart, qEnd, qResult, qMissing>>
fetchVars == <<accts, fpc, batch, attempt, astate, slept, lastError, report, outcomes>>
tableVars == <<rows, nextId, lastSaved, got>>
tierVars == <<redisEnabled, redisUp, hot, durable, now, lastSet, hotOrigin, cleared, cret>>
calcVars == <<daysIn, daysOut>>
metricVars == <<reportsIn, currenciesIn, dimensionIn, ratesIn, metricsOut>>
rateVars == <<exchangeRatesCache, clock, xpc, xnow, xret, refreshed>>
vars == <<syncVars, store, rangeVars, fetchVars, tableVars, tierVars, calcVars, metricVars,
          rateVars>>

----------------------------------------------------------------------------
(* Bounds *)
MaxJobs == 2       \* concurrent invocations of runSmartWorker / manualRefresh
MaxReqs == 1       \* concurrent foreground statistics requests
MaxAccounts == 4   \* active accounts of the user of one fan-out
MaxSaves == 3      \* saveDayData calls on one table
AccountCount == 1  \* active accounts behind a report of the concurrency model
MaxUsers == 2      \* users with entries in the tiered cache
MaxTime == 3       \* periods of 150 seconds the clock of the tiered cache runs
MaxDays == 2       \* day entries handed to one aggregateDays call
MaxRows == 2       \* rows in the report of one day
MaxFanout == 2     \* accounts whose reports one aggregateMetrics call merges
MaxCallers == 2    \* getExchangeRates calls in flight at once
MaxClock == 4      \* periods of 12 hours the clock of the exchange rates runs
MaxRefreshes == 3  \* replacements of the exchange rates that are recorded

\* the TTL of the re-seeding saveToRedis of getCachedData: 300 s, two periods
WarmTtl == 2
\* the ttlSeconds both callers of setCachedData pass: 300 s, two periods
CallerTtl == 2

Jobs == 1..MaxJobs
Reqs == 1..MaxReqs

----------------------------------------------------------------------------
(* Calendar dates *)

DaysIn(m) == IF m = 2 THEN 28 ELSE IF m \in {4, 6, 9, 11} THEN 30 ELSE 31

\* current.setDate(current.getDate() + 1)
NextDay(d) == IF d[2] < DaysIn(d[1]) THEN <<d[1], d[2] + 1>>
              ELSE <<(d[1] % 12) + 1, 1>>

\* yesterday.setDate(yesterday.getDate() - 1)
PrevDay(d) == IF d[2] > 1 THEN <<d[1], d[2] - 1>>
              ELSE LET pm == IF d[1] = 1 THEN 12 ELSE d[1] - 1 IN <<pm, DaysIn(pm)>>

\* a <= b on the ISO strings (sqlite TEXT comparison, JS Date comparison)
DateLeq(a, b) == a[1] < b[1] \/ (a[1] = b[1] /\ a[2] <= b[2])

Today == <<2, 1>>
Yesterday == PrevDay(Today)
DateUniverse == {<<1, 30>>, <<1, 31>>, <<2, 1>>, <<2, 2>>}

\* while (current <= end) { allDates.push(...); current.setDate(+1) }
RECURSIVE AllDates(_, _)
AllDates(current, end) ==
  IF DateLeq(current, end) THEN <<current>> \o AllDates(NextDay(current), end)
  ELSE <<>>

----------------------------------------------------------------------------
(* Reports and the persistent day store *)

Reports == [accountCount : {AccountCount}, successfulAccounts : 0..AccountCount]
Absent == <<>>
OptReport == {Absent} \cup {<<r>> : r \in Reports}

Max(a, b) == IF a >= b THEN a ELSE b

\* getRangeData: the rows with start <= date <= end, ORDER BY date
GetRangeData(st, startDate, endDate) ==
  LET Has(d) == d \in DOMAIN st /\ st[d] # Absent
                /\ DateLeq(startDate, d) /\ DateLeq(d, endDate)
      RECURSIVE Scan(_)
      Scan(todo) ==
        IF todo = {} THEN <<>>
        ELSE LET d == CHOOSE x \in todo : \A y \in todo : DateLeq(x, y)
             IN  (IF Has(d) THEN <<[date |-> d, data |-> st[d][1]]>> ELSE <<>>)
                 \o Scan(todo \ {d})
  IN Scan(DOMAIN st)

\* aggregateDays: 0 days -> null, 1 day -> that day's data, else the merged report
RECURSIVE MaxOver(_, _)
MaxOver(days, field) ==
  IF days = <<>> THEN 0
  ELSE Max(Head(days).data[field], MaxOver(Tail(days), field))

AggregateDays(daysData) ==
  IF Len(daysData) = 0 THEN Absent
  ELSE IF Len(daysData) = 1 THEN <<daysData[1].data>>
  ELSE <<[accountCount |-> MaxOver(daysData, "accountCount"),
          successfulAccounts |-> MaxOver(daysData, "successfulAccounts")]>>

\* the dates of [start, end] that getDataForRange finds no row for
MissingDatesOf(st, startDate, endDate) ==
  LET daysData == GetRangeData(st, startDate, endDate)
      existing == {daysData[i].date : i \in 1..Len(daysData)}
      Missing(d) == d \notin existing
  IN  SelectSeq(AllDates(startDate, endDate), Missing)

\* getMissingDates without its filter on the dates that have a row
GetMissingDates_Unfiltered(st, startDate, endDate) == AllDates(startDate, endDate)

\* getMissingDates: SELECT date ... WHERE date >= start AND date <= end, then the
\* dates of the loop that are not among the rows' dates
GetMissingDates(st, startDate, endDate) ==
  LET existingDates == {d \in DOMAIN st : /\ st[d] # Absent
                                          /\ DateLeq(startDate, d)
                                          /\ DateLeq(d, endDate)}
      IsMissing(d) == d \notin existingDates
  IN  SelectSeq(AllDates(startDate, endDate), IsMissing)

\* getDataForRange without the missing-dates check of lines 310-313
GetDataForRange_Partial(st, startDate, endDate) ==
  IF startDate = endDate
  THEN IF startDate \in DOMAIN st THEN st[startDate] ELSE Absent
  ELSE AggregateDays(GetRangeData(st, startDate, endDate))

\* getDataForRange: <<>> is the miss (null), <<report>> the hit
GetDataForRange(st, startDate, endDate) ==
  IF startDate = endDate
  THEN IF startDate \in DOMAIN st THEN st[startDate] ELSE Absent
  ELSE IF Len(MissingDatesOf(st, startDate, endDate)) > 0 THEN Absent
       ELSE AggregateDays(GetRangeData(st, startDate, endDate))

\* saveDayData: INSERT OR REPLACE on (user_id, date, dimension_type)
SaveDayData(st, date, rep) == [st EXCEPT ![date] = <<rep>>]

----------------------------------------------------------------------------
(* Worker and manual refresh: gam-data-store.js *)

FgRanges == {<<Yesterday, Yesterday>>, <<Today, Today>>, <<Yesterday, Today>>}

\* No resumed-from-microtask continuation is pending: timers, I/O callbacks and
\* new HTTP requests run only then.
Macrotask == \A j \in Jobs : jpc[j] # "skipped"

\* lastEvent holds what the step just taken logged (worker, manual refresh) or
\* answered (a foreground request); every other step resets it.
NoEvent == [kind |-> "none", range |-> <<Today, Today>>, out |-> "none", log |-> {}]
Ev(kind) == [NoEvent EXCEPT !.kind = kind]
Response(r, out, log) == [kind |-> "response", range |-> rrange[r], out |-> out, log |-> log]

\* Invocations and requests are anonymous: a new one takes the lowest free slot.
FreeJob(j) == jpc[j] = "idle" /\ \A k \in Jobs : k < j => jpc[k] # "idle"
FreeReq(r) == rpc[r] = "idle" /\ ~rfetch[r]
              /\ \A k \in Reqs : k < r => ~(rpc[k] = "idle" /\ ~rfetch[k])

InitSync ==
  /\ workerRunning = FALSE
  /\ userRequestInProgress = FALSE
  /\ cache = [k \in FgRanges |-> Absent]
  /\ lastEvent = NoEvent
  /\ jpc = [j \in Jobs |-> "idle"]
  /\ jkind = [j \in Jobs |-> "tick"]
  /\ jday = [j \in Jobs |-> Today]
  /\ jres = [j \in Jobs |-> Absent]
  /\ jhour = [j \in Jobs |-> FALSE]
  /\ rpc = [r \in Reqs |-> "idle"]
  /\ rrange = [r \in Reqs |-> <<Today, Today>>]
  /\ rfetch = [r \in Reqs |-> FALSE]
  /\ rres = [r \in Reqs |-> Absent]
  /\ rlog = [r \in Reqs |-> {}]

reqVars == <<rpc, rrange, rfetch, rres, rlog>>
jobVars == <<jpc, jkind, jday, jres, jhour>>

\* what getMultiAccountStatistics answers its caller with: res.json(report), or
\* res.status(500).json({success: false, error, data: []}) from its catch when
\* the accounts query (or anything else in it) throws.  ErrorBody is that
\* body as saveDayData and the cache would keep it.
ErrorBody == [accountCount |-> 0, successfulAccounts |-> 0]
FetcherAnswers ==
  {[status |-> 200, body |-> rep] : rep \in Reports}
    \cup {[status |-> 500, body |-> ErrorBody]}

\* a caller that resolves with whatever the fetcher answered
CallerRejects_Never(status) == FALSE

\* the fake res of both callers: status(code).json(data) rejects when
\* code >= 400 (gam-data-store.js:350, index.js:5314)
CallerRejects(status) == status >= 400

\* fetchAndStoreDay, lines 334-337: the flag decides whether a fetch is issued
FetchAndStoreDayEntry(flag) == IF flag THEN "skip" ELSE "fetch"

\* runSmartWorker without the check of lines 371-374
WorkerMayStart_NoRunningCheck(running, userActive) == ~userActive

\* runSmartWorker without the check of lines 377-380
WorkerMayStart_NoUserCheck(running, userActive) == ~running

\* runSmartWorker, lines 371-380: the two guards in front of workerRunning = true
WorkerMayStart(running, userActive) == ~running /\ ~userActive

\* manualRefresh, lines 446-448: the guard in front of workerRunning = true
ManualMayStart(running) == ~running

\* a pass without its finally block
Finish_KeepsRunning(j) ==
  /\ UNCHANGED <<workerRunning, userRequestInProgress>>
  /\ jpc' = [jpc EXCEPT ![j] = "idle"]
  /\ jkind' = [jkind EXCEPT ![j] = "tick"]
  /\ jday' = [jday EXCEPT ![j] = Today]
  /\ jres' = [jres EXCEPT ![j] = Absent]
  /\ jhour' = [jhour EXCEPT ![j] = FALSE]

\* the finally blocks: runSmartWorker 439-441, manualRefresh 465-468
Finish(j) ==
  /\ workerRunning' = FALSE
  /\ userRequestInProgress' =
       IF jkind[j] = "manual" THEN FALSE ELSE userRequestInProgress
  /\ jpc' = [jpc EXCEPT ![j] = "idle"]
  /\ jkind' = [jkind EXCEPT ![j] = "tick"]
  /\ jday' = [jday EXCEPT ![j] = Today]
  /\ jres' = [jres EXCEPT ![j] = Absent]
  /\ jhour' = [jhour EXCEPT ![j] = FALSE]

\* runSmartWorker up to its first await (the admin query)
RunSmartWorker(j) ==
  /\ Macrotask
  /\ FreeJob(j)
  /\ IF WorkerMayStart(workerRunning, userRequestInProgress)
     THEN /\ workerRunning' = TRUE
          /\ jpc' = [jpc EXCEPT ![j] = "users"]
          /\ jkind' = [jkind EXCEPT ![j] = "tick"]
          /\ lastEvent' = Ev("tick_start")
     ELSE /\ lastEvent' = IF workerRunning THEN Ev("tick_running") ELSE Ev("tick_user")
          /\ UNCHANGED <<workerRunning, jpc, jkind>>
  /\ UNCHANGED <<userRequestInProgress, store, cache, jday, jres, jhour, reqVars>>

\* what follows "today": the hour window, then await getDataInfo (lines 411-416)
AfterToday(j, inWindow) ==
  IF inWindow
  THEN /\ jpc' = [jpc EXCEPT ![j] = "info"]
       /\ jhour' = [jhour EXCEPT ![j] = inWindow]
       /\ UNCHANGED <<workerRunning, userRequestInProgress, jkind, jday, jres>>
  ELSE Finish(j)

\* the admin query settles; `now` is read; fetchAndStoreDay(today) is entered
UsersDone(j) ==
  /\ Macrotask
  /\ jpc[j] = "users"
  /\ \E q \in {"error", "empty", "admin"}, inWindow \in BOOLEAN :
       /\ IF q # "admin"
          THEN Finish(j)
          ELSE IF FetchAndStoreDayEntry(userRequestInProgress) = "skip"
               THEN AfterToday(j, inWindow)
               ELSE /\ jpc' = [jpc EXCEPT ![j] = "fetch"]
                    /\ jday' = [jday EXCEPT ![j] = Today]
                    /\ jhour' = [jhour EXCEPT ![j] = inWindow]
                    /\ UNCHANGED <<workerRunning, userRequestInProgress, jkind, jres>>
       /\ lastEvent' = IF q = "error" THEN Ev("pass_error") ELSE NoEvent
  /\ UNCHANGED <<store, cache, reqVars>>

\* the fake response of fetchAndStoreDay settles (lines 346-353)
JobFetchSettle(j) ==
  /\ Macrotask
  /\ jpc[j] = "fetch"
  /\ \/ \E ans \in FetcherAnswers :
          /\ ~CallerRejects(ans.status)
          /\ jpc' = [jpc EXCEPT ![j] = "save"]
          /\ jres' = [jres EXCEPT ![j] = <<ans.body>>]
          /\ lastEvent' = NoEvent
          /\ UNCHANGED <<workerRunning, userRequestInProgress, jkind, jday, jhour>>
     \/ \E ans \in FetcherAnswers :
          /\ CallerRejects(ans.status)
          /\ Finish(j)
          /\ lastEvent' = Ev("pass_error")
  /\ UNCHANGED <<store, cache, reqVars>>

\* await saveDayData (line 355)
JobSaveDone(j) ==
  /\ Macrotask
  /\ jpc[j] = "save"
  /\ \/ /\ store' = SaveDayData(store, jday[j], jres[j][1])
        /\ jpc' = [jpc EXCEPT ![j] = "cache"]
        /\ lastEvent' = NoEvent
        /\ UNCHANGED <<workerRunning, userRequestInProgress, jkind, jday, jres, jhour>>
     \/ /\ Finish(j)
        /\ lastEvent' = Ev("pass_error")
        /\ UNCHANGED store
  /\ UNCHANGED <<cache, reqVars>>

\* await gamCache.setCachedData inside try/catch (lines 358-364), then the
\* rest of the caller
JobCacheDone(j) ==
  /\ Macrotask
  /\ jpc[j] = "cache"
  /\ \E ok \in BOOLEAN :
       cache' = IF ok THEN [cache EXCEPT ![<<jday[j], jday[j]>>] = jres[j]]
                ELSE cache
  /\ IF jkind[j] = "tick" /\ jday[j] = Today
     THEN AfterToday(j, jhour[j])
     ELSE Finish(j)
  /\ lastEvent' = IF jkind[j] = "manual" THEN Ev("manual_success") ELSE NoEvent
  /\ UNCHANGED <<store, reqVars>>

\* a worker that refreshes yesterday in every pass of the hour window
ShouldRefreshYesterday_Always(info, old) == TRUE

\* shouldRefreshYesterday (lines 419-421)
ShouldRefreshYesterday(info, old) ==
  \/ info = Absent
  \/ info[1].successfulAccounts < info[1].accountCount
  \/ old

\* getDataInfo (lines 131-148): null without a row, else the row with its age;
\* `old` is whether age_minutes exceeds 360, read only when the two tests in
\* front of it in lines 419-421 are false
YesterdayAges(info) ==
  IF info = Absent \/ info[1].successfulAccounts < info[1].accountCount
  THEN {FALSE} ELSE BOOLEAN

\* the first of the three tests of lines 419-421 that yesterdayInfo satisfies
YesterdayInfo(info, old) ==
  IF info = Absent THEN {"missing"}
  ELSE IF info[1].successfulAccounts < info[1].accountCount THEN {"incomplete"}
  ELSE IF old THEN {"stale"}
  ELSE {}

\* getDataInfo settles (lines 416-432)
InfoDone(j) ==
  /\ Macrotask
  /\ jpc[j] = "info"
  /\ \/ Finish(j) /\ lastEvent' = NoEvent
     \/ \E old \in YesterdayAges(store[Yesterday]) :
          IF ShouldRefreshYesterday(store[Yesterday], old)
          THEN /\ jpc' = [jpc EXCEPT ![j] = "grace"]
               /\ lastEvent' = [Ev("midnight_sync") EXCEPT
                                 !.log = YesterdayInfo(store[Yesterday], old)]
               /\ UNCHANGED <<workerRunning, userRequestInProgress, jkind, jday, jres, jhour>>
          ELSE Finish(j) /\ lastEvent' = NoEvent
  /\ UNCHANGED <<store, cache, reqVars>>

\* the 15 s grace timer fires (lines 426-429)
GraceDone(j) ==
  /\ Macrotask
  /\ jpc[j] = "grace"
  /\ IF ~userRequestInProgress
        /\ FetchAndStoreDayEntry(userRequestInProgress) = "fetch"
     THEN /\ jpc' = [jpc EXCEPT ![j] = "fetch"]
          /\ jday' = [jday EXCEPT ![j] = Yesterday]
          /\ UNCHANGED <<workerRunning, userRequestInProgress, jkind, jres, jhour>>
     ELSE Finish(j)
  /\ lastEvent' = NoEvent
  /\ UNCHANGED <<store, cache, reqVars>>

\* manualRefresh up to `await fetchAndStoreDay(...)` (lines 445-455)
ManualRefresh(j, date) ==
  /\ Macrotask
  /\ FreeJob(j)
  /\ IF ManualMayStart(workerRunning)
     THEN /\ workerRunning' = TRUE
          /\ userRequestInProgress' = TRUE
          /\ jkind' = [jkind EXCEPT ![j] = "manual"]
          /\ jday' = [jday EXCEPT ![j] = date]
          /\ jpc' = [jpc EXCEPT ![j] =
                IF FetchAndStoreDayEntry(userRequestInProgress') = "skip"
                THEN "skipped" ELSE "fetch"]
          /\ lastEvent' = Ev("manual_start")
     ELSE /\ lastEvent' = Ev("manual_busy")
          /\ UNCHANGED <<workerRunning, userRequestInProgress, jpc, jkind, jday>>
  /\ UNCHANGED <<store, cache, jres, jhour, reqVars>>

\* fetchAndStoreDay returned null: result.data throws, catch, finally (456-468)
ManualNullResult(j) ==
  /\ jpc[j] = "skipped"
  /\ Finish(j)
  /\ lastEvent' = Ev("manual_error")
  /\ UNCHANGED <<store, cache, reqVars>>

----------------------------------------------------------------------------
(* GET /api/googleadmanager/statistics: index.js 5250-5359 *)

\* the request is answered: its slot is free again (after a timeout, once the
\* abandoned upstream call has settled)
FgDone(r, out, log) ==
  /\ rpc' = [rpc EXCEPT ![r] = "idle"]
  /\ rrange' = [rrange EXCEPT ![r] = IF out = "timeout" THEN @ ELSE <<Today, Today>>]
  /\ rres' = [rres EXCEPT ![r] = Absent]
  /\ rlog' = [rlog EXCEPT ![r] = {}]
  /\ lastEvent' = Response(r, out, log)

\* a catch block that answers without clearing the flag
FgCatch_KeepsFlag(r, kind) ==
  /\ UNCHANGED userRequestInProgress
  /\ FgDone(r, kind, rlog[r])

\* the catch block (lines 5342-5357): the flag is cleared, 504 on TIMEOUT, else 500
FgCatch(r, kind) ==
  /\ userRequestInProgress' = FALSE
  /\ FgDone(r, kind, rlog[r])

\* lines 5331-5341: the flag is cleared and the fresh result is returned
FgRespondFresh(r, log) ==
  /\ userRequestInProgress' = FALSE
  /\ FgDone(r, "fresh", log)

\* a handler that goes upstream right after the store miss
AfterStoreMiss_SkipCache == "fetch"

\* the order of the lookups in the handler (lines 5276-5304)
AfterStoreMiss == "cache"
AfterCacheMiss == "fetch"

\* a request arrives with its range and getDataForRange settles (5277-5288);
\* on a miss it awaits getCachedData
FgStoreRead(r, range) ==
  /\ Macrotask
  /\ FreeReq(r)
  /\ \/ /\ userRequestInProgress' = FALSE
        /\ lastEvent' = [kind |-> "response", range |-> range, out |-> "error", log |-> {}]
        /\ UNCHANGED <<rpc, rrange, rlog, rfetch>>
     \/ IF GetDataForRange(store, range[1], range[2]) # Absent
        THEN /\ lastEvent' = [kind |-> "response", range |-> range,
                              out |-> "store_hit", log |-> {"store"}]
             /\ UNCHANGED <<userRequestInProgress, rpc, rrange, rlog, rfetch>>
        ELSE /\ rrange' = [rrange EXCEPT ![r] = range]
             /\ rlog' = [rlog EXCEPT ![r] = {"store"}]
             /\ IF AfterStoreMiss = "cache"
                THEN /\ rpc' = [rpc EXCEPT ![r] = "cache"]
                     /\ UNCHANGED <<userRequestInProgress, rfetch>>
                ELSE /\ rpc' = [rpc EXCEPT ![r] = "fetch"]
                     /\ rfetch' = [rfetch EXCEPT ![r] = TRUE]
                     /\ userRequestInProgress' = TRUE
             /\ lastEvent' = NoEvent
  /\ UNCHANGED <<workerRunning, store, cache, jobVars, rres>>

\* getCachedData settles (lines 5291-5302); on a miss the flag is set and the
\* upstream call and the 90 s timer are started (lines 5304-5319)
FgCacheRead(r) ==
  /\ Macrotask
  /\ rpc[r] = "cache"
  /\ \/ /\ FgCatch(r, "error")
        /\ UNCHANGED rfetch
     \/ IF cache[rrange[r]] # Absent
        THEN /\ FgDone(r, "cache_hit", rlog[r] \cup {"cache"})
             /\ UNCHANGED <<userRequestInProgress, rfetch>>
        ELSE /\ userRequestInProgress' = TRUE
             /\ rpc' = [rpc EXCEPT ![r] = AfterCacheMiss]
             /\ rfetch' = [rfetch EXCEPT ![r] = TRUE]
             /\ rlog' = [rlog EXCEPT ![r] = @ \cup {"cache", "upstream"}]
             /\ lastEvent' = NoEvent
             /\ UNCHANGED <<rrange, rres>>
  /\ UNCHANGED <<workerRunning, store, cache, jobVars>>

\* the upstream call resolves before the timer (line 5312), then await setCachedData
FgFetchOk(r) ==
  /\ Macrotask
  /\ rpc[r] = "fetch" /\ rfetch[r]
  /\ \E ans \in FetcherAnswers :
       /\ ~CallerRejects(ans.status)
       /\ rres' = [rres EXCEPT ![r] = <<ans.body>>]
  /\ rfetch' = [rfetch EXCEPT ![r] = FALSE]
  /\ rpc' = [rpc EXCEPT ![r] = "cacheW"]
  /\ lastEvent' = NoEvent
  /\ UNCHANGED <<workerRunning, userRequestInProgress, store, cache,
                 jobVars, rrange, rlog>>

\* the upstream call answers with a status >= 400 before the timer (line 5314)
FgFetchErr(r) ==
  /\ Macrotask
  /\ rpc[r] = "fetch" /\ rfetch[r]
  /\ \E ans \in FetcherAnswers : CallerRejects(ans.status)
  /\ userRequestInProgress' = FALSE
  /\ FgDone(r, "error", rlog[r] \cup {"upstreamError"})
  /\ rfetch' = [rfetch EXCEPT ![r] = FALSE]
  /\ UNCHANGED <<workerRunning, store, cache, jobVars>>

\* the 90 s timer rejects first (line 5318): the call stays in flight
FgTimeout(r) ==
  /\ Macrotask
  /\ rpc[r] = "fetch" /\ rfetch[r]
  /\ FgCatch(r, "timeout")
  /\ UNCHANGED <<workerRunning, store, cache, jobVars, rfetch>>

\* an abandoned upstream call whose late result is still cached
AbandonedEffect_Writes(r) ==
  /\ \E rep \in Reports : cache' = [cache EXCEPT ![rrange[r]] = <<rep>>]
  /\ UNCHANGED store

\* what the late result of an abandoned upstream call does to the tables:
\* Promise.race has settled, nobody reads it
AbandonedEffect(r) == UNCHANGED <<store, cache>>

\* the abandoned upstream call settles
AbandonedSettle(r) ==
  /\ Macrotask
  /\ rpc[r] # "fetch" /\ rfetch[r]
  /\ rfetch' = [rfetch EXCEPT ![r] = FALSE]
  /\ rrange' = [rrange EXCEPT ![r] = <<Today, Today>>]
  /\ AbandonedEffect(r)
  /\ lastEvent' = NoEvent
  /\ UNCHANGED <<workerRunning, userRequestInProgress, jobVars, rpc, rres, rlog>>

\* a handler without the test of line 5325
SavesToStore_Always(range) == TRUE

\* line 5325: only a single-day result goes to the persistent store
SavesToStore(range) == range[1] = range[2]

\* await setCachedData settles (line 5322)
FgCacheWrite(r) ==
  /\ Macrotask
  /\ rpc[r] = "cacheW"
  /\ \/ /\ FgCatch(r, "error")
        /\ UNCHANGED cache
     \/ /\ cache' = [cache EXCEPT ![rrange[r]] = rres[r]]
        /\ IF SavesToStore(rrange[r])
           THEN /\ rpc' = [rpc EXCEPT ![r] = "storeW"]
                /\ rlog' = [rlog EXCEPT ![r] = @ \cup {"wroteCache"}]
                /\ lastEvent' = NoEvent
                /\ UNCHANGED <<userRequestInProgress, rrange, rres>>
           ELSE FgRespondFresh(r, rlog[r] \cup {"wroteCache"})
  /\ UNCHANGED <<workerRunning, store, jobVars, rfetch>>

\* a handler that lets the rejection of saveDayData reach its catch block
OnStoreWriteError_Throw == "throw"

\* lines 5326-5328: .catch(e => console.error(...)) on the saveDayData promise
OnStoreWriteError == "log"

\* await saveDayData(...).catch(...) settles (lines 5326-5328)
FgStoreWrite(r) ==
  /\ Macrotask
  /\ rpc[r] = "storeW"
  /\ \/ /\ store' = SaveDayData(store, rrange[r][1], rres[r][1])
        /\ FgRespondFresh(r, rlog[r] \cup {"wroteStore"})
     \/ /\ UNCHANGED store
        /\ IF OnStoreWriteError = "log"
           THEN FgRespondFresh(r, rlog[r] \cup {"storeWriteFailed"})
           ELSE /\ userRequestInProgress' = FALSE
                /\ FgDone(r, "error", rlog[r] \cup {"storeWriteFailed"})
  /\ UNCHANGED <<workerRunning, cache, jobVars, rfetch>>

\* a cache entry passes its expires_at (redis TTL, `expires_at > now` in sqlite)
CacheExpire(k) ==
  /\ Macrotask
  /\ cache[k] # Absent
  /\ cache' = [cache EXCEPT ![k] = Absent]
  /\ lastEvent' = NoEvent
  /\ UNCHANGED <<workerRunning, userRequestInProgress, store, jobVars, reqVars>>

----------------------------------------------------------------------------
(* The table gam_daily_data: gam-data-store.js 23-105 *)

\* (date, dimension_type) of one user: the columns of the UNIQUE constraint
TableKeys == {Yesterday, Today} \X {"AD_UNIT", "DATE"}

\* a report as handed to saveDayData; `errors` is undefined when no account failed
TableReports == [accountCount : {AccountCount}, successfulAccounts : 0..AccountCount,
                 errors : {"undefined", "list"}]

\* reading a property of an object: undefined when it has none of that name
Field(obj, k) == IF k \in DOMAIN obj THEN obj[k] ELSE "undefined"

\* JSON.stringify leaves out a property whose value is undefined
Stringify(rep) ==
  IF Field(rep, "errors") = "undefined"
  THEN [k \in DOMAIN rep \ {"errors"} |-> rep[k]]
  ELSE rep

\* JSON.parse gives the object with exactly the properties of the text
Parse(text) == text
SameReport(a, b) ==
  /\ a.accountCount = b.accountCount
  /\ a.successfulAccounts = b.successfulAccounts
  /\ Field(a, "errors") = Field(b, "errors")

\* a plain INSERT into a table without the UNIQUE constraint
InsertOrReplace_Insert(t, id, key, text) ==
  t \cup {[id |-> id, key |-> key, data |-> text]}

\* INSERT OR REPLACE under UNIQUE(user_id, date, dimension_type): the row in
\* conflict is deleted, the new row gets a fresh id
InsertOrReplace(t, id, key, text) ==
  {r \in t : r.key # key} \cup {[id |-> id, key |-> key, data |-> text]}

\* getDayData: db.get answers the first matching row, parsed, or null
GetDayData(t, key) ==
  LET m == {r \in t : r.key = key}
  IN  IF m = {} THEN Absent
      ELSE <<Parse((CHOOSE r \in m : \A q \in m : r.id <= q.id).data)>>

InitTableIdle ==
  /\ rows = {} /\ nextId = 1
  /\ lastSaved = [k \in TableKeys |-> Absent]
  /\ got = [asked |-> FALSE, key |-> <<Today, "AD_UNIT">>, result |-> Absent]

\* a saveDayData of any caller (worker, manual refresh, miss-fill) completes
TableSave(key, rep) ==
  /\ nextId <= MaxSaves
  /\ rows' = InsertOrReplace(rows, nextId, key, Stringify(rep))
  /\ nextId' = nextId + 1
  /\ lastSaved' = [lastSaved EXCEPT ![key] = <<rep>>]
  /\ got' = [got EXCEPT !.asked = FALSE, !.result = Absent]

\* a getDayData completes
TableGet(key) ==
  /\ got' = [asked |-> TRUE, key |-> key, result |-> GetDayData(rows, key)]
  /\ UNCHANGED <<rows, nextId, lastSaved>>

----------------------------------------------------------------------------
(* Range reads of the persistent day store: gam-data-store.js 266-326 *)

InitRangeIdle ==
  /\ qpc = "idle" /\ qStart = Today /\ qEnd = Today
  /\ qResult = Absent /\ qMissing = <<>>

\* a caller asks for [start, end]
RangeAsk(s, e) ==
  /\ qpc # "asked"
  /\ qpc' = "asked" /\ qStart' = s /\ qEnd' = e
  /\ qResult' = Absent /\ qMissing' = <<>>
  /\ UNCHANGED store

\* getDataForRange and getMissingDates answer from the table as it is now
RangeRead ==
  /\ qpc = "asked"
  /\ qpc' = "answered"
  /\ qResult' = GetDataForRange(store, qStart, qEnd)
  /\ qMissing' = GetMissingDates(store, qStart, qEnd)
  /\ UNCHANGED <<qStart, qEnd, store>>

\* a saveDayData between two reads
RangeSave(d, rep) ==
  /\ qpc # "asked"
  /\ store' = SaveDayData(store, d, rep)
  /\ qpc' = "idle" /\ qResult' = Absent /\ qMissing' = <<>>
  /\ UNCHANGED <<qStart, qEnd>>

----------------------------------------------------------------------------
(* MultiAccountFetcher: google-ad-manager.js 713-789 and 927-1073 *)

BATCH_SIZE == 3     \* line 971
MaxRetries == 3     \* line 718
BaseDelayMs == 5000 \* line 768

Accounts == 1..accts
UpstreamResults == {"ok", "fail", "rate", "throw"}
  \* ok    : getStatistics returns {success: true, data}
  \* fail  : getStatistics returns {success: false, error} (a non-429 error)
  \* rate  : getStatistics rethrows a 429 / RESOURCE_EXHAUSTED error
  \* throw : getValidAccessToken or the client throws another error

InitFetchIdle ==
  /\ accts = 0 /\ fpc = "idle" /\ batch = 0
  /\ attempt = <<>> /\ astate = <<>> /\ slept = <<>> /\ lastError = <<>>
  /\ report = Absent /\ outcomes = <<>>

RECURSIVE Pow2(_)
Pow2(n) == IF n = 0 THEN 1 ELSE 2 * Pow2(n - 1)

\* a backoff that waits the base delay before every retry
WaitTime_Fixed(att) == BaseDelayMs

\* line 768: 5000 * Math.pow(2, attempt - 1)
WaitTime(att) == BaseDelayMs * Pow2(att - 1)

\* lines 764-766: only a 429 before the last attempt is retried after a delay
RetriesAfterDelay(res, att) == res = "rate" /\ att < MaxRetries

\* lines 757-758: success=false falls through to the next iteration of the loop
RetriesAtOnce(res, att) == res = "fail" /\ att < MaxRetries

\* accounts.slice(i, i + BATCH_SIZE) of batch number b (1-based)
BatchOf(b) == {a \in Accounts : (b - 1) * BATCH_SIZE < a /\ a <= b * BATCH_SIZE}

\* what getAccountStatistics hands back for a settled account: it never throws
AccountResult(a) ==
  IF astate[a] = "ok"
  THEN [accountId |-> a, success |-> TRUE, error |-> "none"]
  ELSE [accountId |-> a, success |-> FALSE, error |-> lastError[a]]

\* batch results that arrive in the reverse of the order of the slice
BatchResults_Reversed(b) ==
  LET size == Cardinality(BatchOf(b))
  IN  [k \in 1..size |-> AccountResult((b - 1) * BATCH_SIZE + (size + 1 - k))]

\* lines 983-989: Promise.all over the slice mapped in order, so result k is
\* that of the k-th account of the slice whatever the order of completion
BatchResults(b) ==
  LET size == Cardinality(BatchOf(b))
  IN  [k \in 1..size |-> AccountResult((b - 1) * BATCH_SIZE + k)]

\* line 990: accountsPromises after the results of batches 1..b were pushed
RECURSIVE AccountsPromises(_)
AccountsPromises(b) ==
  IF b = 0 THEN <<>> ELSE AccountsPromises(b - 1) \o BatchResults(b)

\* lines 1002-1021: the successes, and one {account, error} entry per failure,
\* named by accounts[index] for the index into accountsPromises
RECURSIVE FailedAccounts(_)
FailedAccounts(n) ==
  IF n = 0 THEN <<>>
  ELSE LET result == AccountsPromises(batch)[n]
       IN  FailedAccounts(n - 1) \o
           (IF result.success = FALSE
            THEN <<[account |-> n, error |-> result.error]>> ELSE <<>>)

\* accountsData without the filter of line 1003
RECURSIVE AccountsData_Unfiltered(_)
AccountsData_Unfiltered(n) ==
  IF n = 0 THEN <<>>
  ELSE AccountsData_Unfiltered(n - 1) \o <<AccountsPromises(batch)[n].accountId>>

RECURSIVE AccountsData(_)
AccountsData(n) ==
  IF n = 0 THEN <<>>
  ELSE LET result == AccountsPromises(batch)[n]
       IN  AccountsData(n - 1) \o
           (IF result.success = TRUE THEN <<result.accountId>> ELSE <<>>)

\* lines 1065-1072
ErrorReport ==
  [status |-> 500, success |-> FALSE, accountCount |-> 0, successfulAccounts |-> 0,
   failedAccounts |-> 0, accounts |-> <<>>, errors |-> <<>>]

\* a fan-out that gives up as soon as one account has failed
BuildReport_FailFast ==
  IF Len(FailedAccounts(accts)) > 0 THEN ErrorReport
  ELSE [status |-> 200, success |-> TRUE,
        accountCount |-> accts,
        successfulAccounts |-> Len(AccountsData(accts)),
        failedAccounts |-> 0,
        accounts |-> AccountsData(accts),
        errors |-> <<>>]

\* lines 1050-1063
BuildReport ==
  [status |-> 200, success |-> TRUE,
   accountCount |-> accts,
   successfulAccounts |-> Len(AccountsData(accts)),
   failedAccounts |-> Len(FailedAccounts(accts)),
   accounts |-> AccountsData(accts),
   errors |-> FailedAccounts(accts)]

\* lines 957-965
NoAccountsReport ==
  [status |-> 200, success |-> TRUE, accountCount |-> 0, successfulAccounts |-> 0,
   failedAccounts |-> 0, accounts |-> <<>>, errors |-> <<>>]

\* a fan-out that hands every account to getAccountStatistics at once
StartBatch_All(n, b) ==
  /\ batch' = b
  /\ attempt' = [a \in 1..n |-> IF b = 1 THEN 1 ELSE attempt[a]]
  /\ astate' = [a \in 1..n |-> IF b = 1 THEN "inflight" ELSE astate[a]]

\* batch b is handed to getAccountStatistics: first attempt of each account
StartBatch(n, b) ==
  LET InBatch(a) == (b - 1) * BATCH_SIZE < a /\ a <= b * BATCH_SIZE
  IN  /\ batch' = b
      /\ attempt' = [a \in 1..n |-> IF InBatch(a) THEN 1
                                    ELSE IF b = 1 THEN 0 ELSE attempt[a]]
      /\ astate' = [a \in 1..n |-> IF InBatch(a) THEN "inflight"
                                   ELSE IF b = 1 THEN "waiting" ELSE astate[a]]

\* getMultiAccountStatistics is called; the accounts query settles (928-967)
FetchEnumerate ==
  /\ fpc = "idle"
  /\ \/ /\ fpc' = "done"
        /\ report' = <<ErrorReport>>
        /\ UNCHANGED <<accts, batch, attempt, astate, slept, lastError, outcomes>>
     \/ \E n \in 0..MaxAccounts :
          /\ accts' = n
          /\ slept' = [a \in 1..n |-> <<>>]
          /\ outcomes' = [a \in 1..n |-> <<>>]
          /\ lastError' = [a \in 1..n |-> "none"]
          /\ IF n = 0
             THEN /\ fpc' = "done"
                  /\ report' = <<NoAccountsReport>>
                  /\ UNCHANGED <<batch, attempt, astate>>
             ELSE /\ fpc' = "batch"
                  /\ StartBatch(n, 1)
                  /\ UNCHANGED report

\* one attempt of one account settles (lines 721-778)
AttemptSettle(a, res) ==
  /\ fpc = "batch"
  /\ a \in Accounts /\ astate[a] = "inflight"
  /\ outcomes' = [outcomes EXCEPT ![a] = Append(@, res)]
  /\ IF res = "ok"
     THEN /\ astate' = [astate EXCEPT ![a] = "ok"]
          /\ UNCHANGED <<attempt, slept, lastError>>
     ELSE /\ lastError' = [lastError EXCEPT ![a] = res]
          /\ IF RetriesAfterDelay(res, attempt[a])
             THEN /\ astate' = [astate EXCEPT ![a] = "backoff"]
                  /\ slept' = [slept EXCEPT ![a] = Append(@, WaitTime(attempt[a]))]
                  /\ UNCHANGED attempt
             ELSE IF RetriesAtOnce(res, attempt[a])
                  THEN /\ attempt' = [attempt EXCEPT ![a] = @ + 1]
                       /\ UNCHANGED <<astate, slept>>
                  ELSE /\ astate' = [astate EXCEPT ![a] = "failed"]
                       /\ UNCHANGED <<attempt, slept>>
  /\ UNCHANGED <<accts, fpc, batch, report>>

\* the backoff timer fires: the next attempt of the same account (770-771)
BackoffDone(a) ==
  /\ fpc = "batch"
  /\ a \in Accounts /\ astate[a] = "backoff"
  /\ astate' = [astate EXCEPT ![a] = "inflight"]
  /\ attempt' = [attempt EXCEPT ![a] = @ + 1]
  /\ UNCHANGED <<accts, fpc, batch, slept, lastError, report, outcomes>>

\* Promise.all of the batch settles (lines 989-997, 999-1063)
BatchDone ==
  /\ fpc = "batch"
  /\ \A a \in BatchOf(batch) : astate[a] \in {"ok", "failed"}
  /\ IF batch * BATCH_SIZE < accts
     THEN /\ fpc' = "pause"
          /\ UNCHANGED report
     ELSE /\ fpc' = "done"
          /\ report' = <<BuildReport>>
  /\ UNCHANGED <<accts, batch, attempt, astate, slept, lastError, outcomes>>

\* the pause between batches is over (line 995)
PauseDone ==
  /\ fpc = "pause"
  /\ fpc' = "batch"
  /\ StartBatch(accts, batch + 1)
  /\ UNCHANGED <<accts, slept, lastError, report, outcomes>>

\* the caller has its answer; the next call starts from scratch
FetchReset ==
  /\ fpc = "done"
  /\ fpc' = "idle" /\ accts' = 0 /\ batch' = 0
  /\ attempt' = <<>> /\ astate' = <<>> /\ slept' = <<>> /\ lastError' = <<>>
  /\ report' = Absent /\ outcomes' = <<>>

----------------------------------------------------------------------------
(* TieredCache: redis-cache.js.  Time is counted in periods of 150 seconds. *)
(* Each exported operation is one step: its awaits are on one redis        *)
(* connection and one sqlite connection, and its outcome is decided by     *)
(* whether redis is reachable and whether the sqlite statement fails.      *)

CacheUsers == 1..MaxUsers
\* (startDate, endDate) of a request; dimensionType is 'AD_UNIT'
CacheRanges == {<<Today, Today>>}
\* generateCacheKey: the key text names the user and the range
GenerateCacheKey(u, range) == <<u, range>>
CacheKeys == {GenerateCacheKey(u, range) : u \in CacheUsers, range \in CacheRanges}
\* the reports handed to setCachedData
CacheValues == {rep \in TableReports : rep.successfulAccounts = AccountCount}
\* ttlSeconds of a setCachedData
Ttls == {CallerTtl}

NoCall == [op |-> "none", key |-> GenerateCacheKey(1, <<Today, Today>>), out |-> "none",
           val |-> <<>>, src |-> "none", changes |-> 0,
           durableFailed |-> FALSE, hotDown |-> FALSE]

\* the redis key is there until its TTL has run out
HotLive(h, t, k) == h[k] # <<>> /\ h[k][1].exp > t

\* getFromRedis without its try/catch: an unreachable redis rejects the call
GetFromRedis_NoCatch(h, en, up, t, k) ==
  IF ~en THEN [threw |-> FALSE, val |-> <<>>]
  ELSE IF ~up THEN [threw |-> TRUE, val |-> <<>>]
  ELSE IF HotLive(h, t, k) THEN [threw |-> FALSE, val |-> <<Parse(h[k][1].text)>>]
  ELSE [threw |-> FALSE, val |-> <<>>]

\* getFromRedis: null when redis is disabled, when the command throws (caught)
\* or when the key is not there
GetFromRedis(h, en, up, t, k) ==
  IF ~en THEN [threw |-> FALSE, val |-> <<>>]
  ELSE IF ~up THEN [threw |-> FALSE, val |-> <<>>]
  ELSE IF HotLive(h, t, k) THEN [threw |-> FALSE, val |-> <<Parse(h[k][1].text)>>]
  ELSE [threw |-> FALSE, val |-> <<>>]

\* saveToRedis: setEx of the JSON text; nothing when disabled or when it throws
SaveToRedis(h, en, up, t, k, v, ttl) ==
  IF ~en \/ ~up THEN h
  ELSE [h EXCEPT ![k] = <<[text |-> Stringify(v), exp |-> t + ttl]>>]

\* getFromSQLite whose error callback resolves null
GetFromSQLite_ResolveNull(d, t, k, fail) ==
  IF fail THEN [rejected |-> FALSE, val |-> <<>>]
  ELSE IF d[k] # <<>> /\ d[k][1].expires_at > t
       THEN [rejected |-> FALSE, val |-> <<Parse(d[k][1].data)>>]
  ELSE [rejected |-> FALSE, val |-> <<>>]

\* getFromSQLite: SELECT ... WHERE user_id = ? AND cache_key = ? AND expires_at > now
GetFromSQLite(d, t, k, fail) ==
  IF fail THEN [rejected |-> TRUE, val |-> <<>>]
  ELSE IF d[k] # <<>> /\ d[k][1].expires_at > t
       THEN [rejected |-> FALSE, val |-> <<Parse(d[k][1].data)>>]
  ELSE [rejected |-> FALSE, val |-> <<>>]

\* saveToSQLite: INSERT OR REPLACE under UNIQUE(cache_key)
SaveToSQLite(d, t, k, v, ttl) ==
  [d EXCEPT ![k] = <<[data |-> Stringify(v), expires_at |-> t + ttl]>>]

InitTierIdle ==
  /\ redisEnabled = TRUE /\ redisUp = TRUE
  /\ hot = [k \in CacheKeys |-> <<>>]
  /\ durable = [k \in CacheKeys |-> <<>>]
  /\ now = 0
  /\ lastSet = [k \in CacheKeys |-> <<>>]
  /\ hotOrigin = [k \in CacheKeys |-> 0]
  /\ cleared = [k \in CacheKeys |-> FALSE]
  /\ cret = NoCall

\* getCachedData(u, range); `fail` is whether the sqlite statement errors
GetCachedData(k, fail) ==
  LET redisData == GetFromRedis(hot, redisEnabled, redisUp, now, k)
      down == ~redisEnabled \/ ~redisUp
  IN  IF redisData.threw
      THEN /\ cret' = [NoCall EXCEPT !.op = "get", !.key = k, !.out = "error",
                                     !.hotDown = down]
           /\ UNCHANGED <<hot, durable, lastSet, hotOrigin, cleared, redisEnabled, redisUp, now>>
      ELSE IF redisData.val # <<>>
      THEN /\ ~fail
           /\ cret' = [NoCall EXCEPT !.op = "get", !.key = k, !.out = "value",
                                     !.val = redisData.val, !.src = "hot",
                                     !.hotDown = down]
           /\ UNCHANGED <<hot, durable, lastSet, hotOrigin, cleared, redisEnabled, redisUp, now>>
      ELSE LET sqliteData == GetFromSQLite(durable, now, k, fail)
           IN  /\ hot' = IF ~sqliteData.rejected /\ sqliteData.val # <<>> /\ redisEnabled
                         THEN SaveToRedis(hot, redisEnabled, redisUp, now, k,
                                          sqliteData.val[1], WarmTtl)
                         ELSE hot
               /\ cret' = [NoCall EXCEPT
                     !.op = "get", !.key = k,
                     !.out = IF sqliteData.rejected THEN "error"
                             ELSE IF sqliteData.val # <<>> THEN "value" ELSE "absent",
                     !.val = sqliteData.val,
                     !.src = "durable",
                     !.durableFailed = fail, !.hotDown = down]
               /\ hotOrigin' = IF hot'[k] # hot[k]
                               THEN [hotOrigin EXCEPT ![k] = durable[k][1].expires_at]
                               ELSE hotOrigin
               /\ UNCHANGED <<durable, lastSet, cleared, redisEnabled, redisUp, now>>

\* setCachedData(u, range, v, ttl): Promise.all of the two saves; the redis save
\* never rejects, the sqlite save rejects when the statement errors
SetCachedData(k, v, ttl, fail) ==
  /\ hot' = SaveToRedis(hot, redisEnabled, redisUp, now, k, v, ttl)
  /\ durable' = IF fail THEN durable ELSE SaveToSQLite(durable, now, k, v, ttl)
  /\ hotOrigin' = IF redisEnabled /\ redisUp
                  THEN [hotOrigin EXCEPT ![k] = now + ttl] ELSE hotOrigin
  /\ cleared' = [cleared EXCEPT ![k] = FALSE]
  /\ lastSet' = [lastSet EXCEPT ![k] = IF fail THEN <<>>
                                       ELSE <<[v |-> v, exp |-> now + ttl]>>]
  /\ cret' = [NoCall EXCEPT !.op = "set", !.key = k,
                            !.out = IF fail THEN "error" ELSE "ok",
                            !.val = <<v>>,
                            !.durableFailed = fail,
                            !.hotDown = ~redisEnabled \/ ~redisUp]
  /\ UNCHANGED <<redisEnabled, redisUp, now>>

\* clearUserCache(u): keys `gam:u:*` deleted in redis when it is enabled and
\* the commands do not throw; then DELETE ... WHERE user_id = u, this.changes
ClearUserCache(u, fail) ==
  /\ hot' = IF redisEnabled /\ redisUp
            THEN [k \in CacheKeys |-> IF k[1] = u THEN <<>> ELSE hot[k]]
            ELSE hot
  /\ durable' = IF fail THEN durable
                ELSE [k \in CacheKeys |-> IF k[1] = u THEN <<>> ELSE durable[k]]
  /\ lastSet' = [k \in CacheKeys |-> IF k[1] = u THEN <<>> ELSE lastSet[k]]
  /\ hotOrigin' = [k \in CacheKeys |-> IF hot'[k] = <<>> THEN 0 ELSE hotOrigin[k]]
  /\ cleared' = [k \in CacheKeys |-> IF k[1] = u /\ ~fail THEN TRUE ELSE cleared[k]]
  /\ cret' = [NoCall EXCEPT
                !.op = "clear", !.key = GenerateCacheKey(u, <<Today, Today>>),
                !.out = IF fail THEN "error" ELSE "ok",
                !.changes = IF fail THEN 0
                            ELSE Cardinality({k \in CacheKeys : k[1] = u /\ durable[k] # <<>>}),
                !.durableFailed = fail,
                !.hotDown = ~redisEnabled \/ ~redisUp]
  /\ UNCHANGED <<redisEnabled, redisUp, now>>

\* clearExpiredCache, hourly: DELETE FROM gam_cache WHERE expires_at < now
ClearExpiredCache ==
  /\ \E k \in CacheKeys : durable[k] # <<>> /\ durable[k][1].expires_at < now
  /\ durable' = [k \in CacheKeys |->
                   IF durable[k] # <<>> /\ durable[k][1].expires_at < now
                   THEN <<>> ELSE durable[k]]
  /\ cret' = NoCall
  /\ UNCHANGED <<hot, lastSet, hotOrigin, cleared, redisEnabled, redisUp, now>>

\* 150 seconds pass
Tick ==
  /\ now < MaxTime
  /\ now' = now + 1
  \* redis drops a key when its TTL has run out
  /\ hot' = [k \in CacheKeys |-> IF HotLive(hot, now + 1, k) THEN hot[k] ELSE <<>>]
  /\ lastSet' = [k \in CacheKeys |->
                   IF lastSet[k] # <<>> /\ now + 1 < lastSet[k][1].exp
                   THEN lastSet[k] ELSE <<>>]
  /\ hotOrigin' = [k \in CacheKeys |-> IF hot'[k] = <<>> THEN 0 ELSE hotOrigin[k]]
  /\ cret' = NoCall
  /\ UNCHANGED <<durable, cleared, redisEnabled, redisUp>>

\* the connection to redis breaks; the server keeps its keys
RedisBreaks ==
  /\ redisUp
  /\ redisUp' = FALSE
  /\ cret' = NoCall
  /\ UNCHANGED <<hot, durable, lastSet, hotOrigin, cleared, redisEnabled, now>>

\* the client's 'error' event
RedisOnError ==
  /\ ~redisUp /\ redisEnabled
  /\ redisEnabled' = FALSE
  /\ cret' = NoCall
  /\ UNCHANGED <<hot, durable, lastSet, hotOrigin, cleared, redisUp, now>>

\* the client reconnects: its 'connect' event
RedisOnConnect ==
  /\ ~redisUp
  /\ redisUp' = TRUE /\ redisEnabled' = TRUE
  /\ cret' = NoCall
  /\ UNCHANGED <<hot, durable, lastSet, hotOrigin, cleared, now>>

\* the redis server loses its keys (restart, FLUSHALL, eviction)
HotCleared ==
  /\ \E k \in CacheKeys : hot[k] # <<>>
  /\ hot' = [k \in CacheKeys |-> <<>>]
  /\ hotOrigin' = [k \in CacheKeys |-> 0]
  /\ cret' = NoCall
  /\ UNCHANGED <<durable, lastSet, cleared, redisEnabled, redisUp, now>>

----------------------------------------------------------------------------
(* aggregateDays: gam-data-store.js 154-260.  Counts are integers, revenue  *)
(* is in cents, and the rates that the code rounds with toFixed(2) are in   *)
(* hundredths.                                                              *)

\* the sequences over S of length at most n
SeqsUpTo(S, n) == UNION {[1..k -> S] : k \in 0..n}

\* (impressions, clicks, revenue, unfilled_impressions) of a row
RowMetrics == {<<0, 0, 0, 0>>, <<1000, 20, 150, 500>>, <<3, 1, 7, 0>>}

\* a row of a day's report; "" is a property that is missing or empty
DayRows == {[domain |-> dom, adUnitName |-> unit, impressions |-> m[1], clicks |-> m[2],
             revenue |-> m[3], unfilled_impressions |-> m[4]] :
              dom \in {"", "a.com"}, unit \in {"", "unit1"}, m \in RowMetrics}

\* the report of a stored day: its rows, or no `data` property at all
DayReportsFull == {[hasData |-> TRUE, data |-> rs] : rs \in SeqsUpTo(DayRows, MaxRows)}
                    \cup {[hasData |-> FALSE, data |-> <<>>]}

\* the entries getRangeData hands over: {date, data}
DayEntries == {[data |-> rep] : rep \in DayReportsFull}

\* parseFloat((num / den * scale).toFixed(2)) in hundredths, 0 unless den > 0
Rate(num, den, scale) ==
  IF den > 0 THEN (2 * num * scale * 100 + den) \div (2 * den) ELSE 0

\* the key of a row that has no domain: the ad-unit name is not looked at
GroupKey_DomainOnly(record) ==
  IF record.domain # "" THEN record.domain ELSE "unknown"

\* record.domain || record.adUnitName || 'unknown'
GroupKey(record) ==
  IF record.domain # "" THEN record.domain
  ELSE IF record.adUnitName # "" THEN record.adUnitName
  ELSE "unknown"

\* the rows the two loops visit, in order; a day without data is skipped
RECURSIVE VisitedRows(_)
VisitedRows(daysData) ==
  IF daysData = <<>> THEN <<>>
  ELSE (IF Head(daysData).data.hasData THEN Head(daysData).data.data ELSE <<>>)
       \o VisitedRows(Tail(daysData))

\* the body of the inner loop: create the group of the key when it is not
\* there, then add the row to it.  m.order is the insertion order of the keys.
AddRecord(m, record) ==
  LET key == GroupKey(record)
      fresh == [domain |-> key, impressions |-> 0, clicks |-> 0, revenue |-> 0,
                unfilled_impressions |-> 0, ctr |-> 0, ecpm |-> 0]
      known == key \in DOMAIN m.map
      d == IF known THEN m.map[key] ELSE fresh
      sum == [d EXCEPT !.impressions = @ + record.impressions,
                       !.clicks = @ + record.clicks,
                       !.revenue = @ + record.revenue,
                       !.unfilled_impressions = @ + record.unfilled_impressions]
  IN  [order |-> IF known THEN m.order ELSE Append(m.order, key),
       map |-> [k \in DOMAIN m.map \cup {key} |-> IF k = key THEN sum ELSE m.map[k]]]

RECURSIVE DomainMap(_, _)
DomainMap(rs, m) ==
  IF rs = <<>> THEN m ELSE DomainMap(Tail(rs), AddRecord(m, Head(rs)))

\* Object.values(domainMap).map(...): ctr and ecpm of each group from its sums
GroupsOf(daysData) ==
  LET m == DomainMap(VisitedRows(daysData), [order |-> <<>>, map |-> <<>>])
  IN  [i \in 1..Len(m.order) |->
         LET d == m.map[m.order[i]]
         IN  [d EXCEPT !.ctr = Rate(d.clicks, d.impressions, 100),
                       !.ecpm = Rate(d.revenue, d.impressions, 10)]]

RECURSIVE SumOf(_, _)
SumOf(data, field) ==
  IF data = <<>> THEN 0 ELSE Head(data)[field] + SumOf(Tail(data), field)

\* requests_served without the unfilled impressions
RequestsServed_ImpressionsOnly(impressions, unfilled) == impressions

\* totals.requests_served = totals.impressions + totals.unfilled_impressions
RequestsServed(impressions, unfilled) == impressions + unfilled

\* the totals of lines 217-234
TotalsOf(data) ==
  LET impressions == SumOf(data, "impressions")
      clicks == SumOf(data, "clicks")
      revenue == SumOf(data, "revenue")
      unfilled == SumOf(data, "unfilled_impressions")
      requests == RequestsServed(impressions, unfilled)
      pmr == Rate(impressions, requests, 100)
  IN  [impressions |-> impressions, clicks |-> clicks, revenue |-> revenue,
       unfilled_impressions |-> unfilled,
       ctr |-> Rate(clicks, impressions, 100),
       ecpm |-> Rate(revenue, impressions, 10),
       requests_served |-> requests, pmr |-> pmr, active_view |-> pmr]

\* lines 158-259: the merged report of the days
MergeDays(daysData) ==
  LET data == GroupsOf(daysData)
  IN  [success |-> TRUE, data |-> data, totals |-> TotalsOf(data)]

\* aggregateDays without its two early returns
aggregateDays_AlwaysMerge(daysData) == <<MergeDays(daysData)>>

\* aggregateDays: <<>> is null
aggregateDays(daysData) ==
  IF Len(daysData) = 0 THEN <<>>
  ELSE IF Len(daysData) = 1 THEN <<daysData[1].data>>
  ELSE <<MergeDays(daysData)>>

InitCalcIdle ==
  /\ daysIn = <<>> /\ daysOut = [called |-> FALSE, result |-> <<>>]
  /\ reportsIn = <<>> /\ currenciesIn = <<>> /\ dimensionIn = "DATE"
  /\ ratesIn = [USD |-> 100, EUR |-> 118]
  /\ metricsOut = [called |-> FALSE, first |-> <<>>, second |-> <<>>]

\* a caller applies aggregateDays to the days it holds
AggregateCall ==
  /\ ~daysOut.called
  /\ daysOut' = [called |-> TRUE, result |-> aggregateDays(daysIn)]
  /\ UNCHANGED daysIn

----------------------------------------------------------------------------
(* Cross-account aggregation: google-ad-manager.js 109-128, 447-524,       *)
(* 795-922.  Revenue is in cents, an exchange rate is in hundredths of USD  *)
(* per unit of the currency, rounded rates are in hundredths.               *)

Dimensions == {"AD_UNIT", "ORDER", "LINE_ITEM", "DATE"}

\* dimensionValues[0] of a report row: a name, or a date as YYYYMMDD
RawDimensionValues(dimensionType) ==
  IF dimensionType = "DATE" THEN {"20250201", "20250202"}
  ELSE {"siteA_Content1", "siteB_Content1"}

\* (impressions, clicks, revenue, unfilled) of a report row
RawMetrics == {<<1000, 20, 10000, 0>>, <<1000, 20, 5000, 0>>, <<0, 0, 0, 500>>}

\* the rows of the report of one account
RawRows(dimensionType) ==
  [dimensionValue : RawDimensionValues(dimensionType), metrics : RawMetrics]

\* the table of line 52 and a table as getExchangeRates stores it after a fetch
FallbackRates == [USD |-> 100, EUR |-> 118]
FetchedRates == [USD |-> 100, EUR |-> 105]
RateTables == {FallbackRates, FetchedRates}

\* account.currency_code; "JPY" has no entry in either table
Currencies == {"USD", "EUR", "JPY"}

\* convertToUSD that returns the amount whatever the currency
ConvertToUSD_Unconverted(amount, fromCurrency, rates) == amount

\* convertToUSD: USD and a currency without a rate pass through
ConvertToUSD(amount, fromCurrency, rates) ==
  IF fromCurrency = "USD" THEN amount
  ELSE IF fromCurrency \notin DOMAIN rates THEN amount
  ELSE (amount * rates[fromCurrency]) \div 100

\* extractDomainFromAdUnit: the text before the first underscore, lowercased
ExtractDomainFromAdUnit(adUnitName) ==
  CASE adUnitName = "siteA_Content1" -> "sitea"
    [] adUnitName = "siteB_Content1" -> "siteb"
    [] OTHER -> "unknown"

\* parseDateValue: YYYYMMDD to an ISO timestamp
ParseDateValue(dateValue) ==
  CASE dateValue = "20250201" -> "2025-02-01T00:00:00.000Z"
    [] dateValue = "20250202" -> "2025-02-02T00:00:00.000Z"
    [] OTHER -> dateValue

\* transformReportData of one row: baseData plus the fields of the dimension
TransformReportData(raw, dimensionType) ==
  LET baseData == [date |-> "now", impressions |-> raw.metrics[1],
                   clicks |-> raw.metrics[2], revenue |-> raw.metrics[3],
                   unfilled |-> raw.metrics[4]]
  IN  CASE dimensionType = "AD_UNIT" ->
             [adUnitName |-> raw.dimensionValue,
              domain |-> ExtractDomainFromAdUnit(raw.dimensionValue),
              unfilled_impressions |-> raw.metrics[4]] @@ baseData
        [] dimensionType = "ORDER" -> [orderName |-> raw.dimensionValue] @@ baseData
        [] dimensionType = "LINE_ITEM" -> [lineItemName |-> raw.dimensionValue] @@ baseData
        [] dimensionType = "DATE" ->
             [date |-> ParseDateValue(raw.dimensionValue)] @@ baseData
        [] OTHER -> baseData

\* row.<field> || 0
NumberOr0(row, field) == IF field \in DOMAIN row THEN row[field] ELSE 0

\* row.<field> || row.name || 'Unknown'
NameOrUnknown(row, field) ==
  IF field \in DOMAIN row /\ row[field] # "" THEN row[field]
  ELSE IF "name" \in DOMAIN row /\ row.name # "" THEN row.name
  ELSE "Unknown"

\* the key of lines 812-826 without the account name
MetricsKey_NoAccount(row, dimensionType, accountName) ==
  CASE dimensionType = "AD_UNIT" -> <<NameOrUnknown(row, "ad_unit_name")>>
    [] dimensionType = "ORDER" -> <<NameOrUnknown(row, "order_name")>>
    [] dimensionType = "LINE_ITEM" -> <<NameOrUnknown(row, "line_item_name")>>
    [] OTHER -> <<row.date>>

\* the key of lines 812-826: `<name> (<accountName>)`, or row.date
MetricsKey(row, dimensionType, accountName) ==
  CASE dimensionType = "AD_UNIT" -> <<NameOrUnknown(row, "ad_unit_name"), accountName>>
    [] dimensionType = "ORDER" -> <<NameOrUnknown(row, "order_name"), accountName>>
    [] dimensionType = "LINE_ITEM" -> <<NameOrUnknown(row, "line_item_name"), accountName>>
    [] OTHER -> <<row.date>>

\* the revenue added to an aggregated row, were it the converted one
RowRevenue_Converted(revenueOriginal, revenueInUSD) == revenueInUSD

\* aggregated[key].revenue += revenueOriginal
RowRevenue(revenueOriginal, revenueInUSD) == revenueOriginal

\* the state of the two forEach loops before any row
NoMetrics == [order |-> <<>>, map |-> <<>>, totalImpressions |-> 0, totalClicks |-> 0,
              totalRevenue |-> 0, totalUnfilled |-> 0]

\* the body of the inner forEach for one row of one account
AddMetricsRow(m, row, accountResult, dimensionType, rates) ==
  LET key == MetricsKey(row, dimensionType, accountResult.accountName)
      accountCurrency == accountResult.currencyCode
      fresh == [key |-> key, first |-> row, impressions |-> 0, clicks |-> 0,
                revenue |-> 0, original_currency |-> accountCurrency,
                unfilled_impressions |-> 0, accounts |-> <<>>, currencies |-> <<>>,
                ctr |-> 0, ecpm |-> 0]
      known == key \in DOMAIN m.map
      a == IF known THEN m.map[key] ELSE fresh
      revenueOriginal == NumberOr0(row, "revenue")
      revenueInUSD == ConvertToUSD(revenueOriginal, accountCurrency, rates)
      tracked == \E i \in 1..Len(a.currencies) : a.currencies[i] = accountCurrency
      sum == [a EXCEPT
                !.impressions = @ + NumberOr0(row, "impressions"),
                !.clicks = @ + NumberOr0(row, "clicks"),
                !.revenue = @ + RowRevenue(revenueOriginal, revenueInUSD),
                !.unfilled_impressions = @ + NumberOr0(row, "unfilled_impressions"),
                !.accounts = Append(@, accountResult.accountName),
                !.currencies = IF tracked THEN @ ELSE Append(@, accountCurrency)]
  IN  [order |-> IF known THEN m.order ELSE Append(m.order, key),
       map |-> [k \in DOMAIN m.map \cup {key} |-> IF k = key THEN sum ELSE m.map[k]],
       totalImpressions |-> m.totalImpressions + NumberOr0(row, "impressions"),
       totalClicks |-> m.totalClicks + NumberOr0(row, "clicks"),
       totalRevenue |-> m.totalRevenue + revenueInUSD,
       totalUnfilled |-> m.totalUnfilled + NumberOr0(row, "unfilled_impressions")]

RECURSIVE AddMetricsRows(_, _, _, _, _)
AddMetricsRows(m, rs, accountResult, dimensionType, rates) ==
  IF rs = <<>> THEN m
  ELSE AddMetricsRows(AddMetricsRow(m, Head(rs), accountResult, dimensionType, rates),
                      Tail(rs), accountResult, dimensionType, rates)

RECURSIVE AddMetricsAccounts(_, _, _, _)
AddMetricsAccounts(m, accountsData, dimensionType, rates) ==
  IF accountsData = <<>> THEN m
  ELSE LET accountResult == Head(accountsData)
           next == IF ~accountResult.success THEN m
                   ELSE AddMetricsRows(m, accountResult.data, accountResult,
                                       dimensionType, rates)
       IN  AddMetricsAccounts(next, Tail(accountsData), dimensionType, rates)

\* aggregateMetrics under the exchange-rate table `rates`
aggregateMetrics(accountsData, dimensionType, rates) ==
  LET m == AddMetricsAccounts(NoMetrics, accountsData, dimensionType, rates)
      result == [i \in 1..Len(m.order) |->
                   LET a == m.map[m.order[i]]
                   IN  [a EXCEPT !.ctr = Rate(a.clicks, a.impressions, 100),
                                 !.ecpm = Rate(a.revenue, a.impressions, 10)]]
      totalRequests == m.totalImpressions + m.totalUnfilled
  IN  [data |-> result,
       totals |-> [impressions |-> m.totalImpressions, clicks |-> m.totalClicks,
                   revenue |-> m.totalRevenue,
                   unfilled_impressions |-> m.totalUnfilled,
                   ctr |-> Rate(m.totalClicks, m.totalImpressions, 100),
                   ecpm |-> Rate(m.totalRevenue, m.totalImpressions, 10),
                   requests_served |-> totalRequests,
                   pmr |-> Rate(m.totalImpressions, totalRequests, 100),
                   active_view |-> Rate(m.totalImpressions - m.totalUnfilled,
                                        m.totalImpressions, 100)]]

\* the result of getAccountStatistics for the account at position n of the user
AccountName(n) == IF n = 1 THEN "acc1" ELSE IF n = 2 THEN "acc2" ELSE "acc3"
AccountResults(raw, currencies, dimensionType) ==
  [n \in 1..Len(raw) |->
     [accountName |-> AccountName(n), currencyCode |-> currencies[n], success |-> TRUE,
      data |-> [i \in 1..Len(raw[n]) |-> TransformReportData(raw[n][i], dimensionType)]]]

NoMetricsCall == [called |-> FALSE, first |-> <<>>, second |-> <<>>]

\* the fan-out aggregates the reports of the accounts, once under each table
MetricsCall ==
  /\ ~metricsOut.called
  /\ LET accountsData == AccountResults(reportsIn, currenciesIn, dimensionIn)
     IN  metricsOut' =
           [called |-> TRUE,
            first |-> <<aggregateMetrics(accountsData, dimensionIn, FallbackRates)>>,
            second |-> <<aggregateMetrics(accountsData, dimensionIn, ratesIn)>>]
  /\ UNCHANGED <<reportsIn, currenciesIn, dimensionIn, ratesIn>>

----------------------------------------------------------------------------
(* ExchangeRateSnapshot: google-ad-manager.js 48-104.  Time is counted in   *)
(* periods of 12 hours from 1; lastUpdated = 0 is the initial null.  The    *)
(* request to the rate service has a timeout of 5 s, so a call in flight    *)
(* settles within the period it started in.                                 *)

\* oneDayMs (line 64) in periods
OneDay == 2

Callers == 1..MaxCallers

\* what the rate service answers: a table (inverted as lines 90-95 do), a body
\* without rates, or an error / timeout
ServiceTables == {[USD |-> 100, EUR |-> 105], [USD |-> 100, EUR |-> 110]}
ServiceAnswers ==
  {[kind |-> "rates", rates |-> t] : t \in ServiceTables}
  \cup {[kind |-> k, rates |-> [USD |-> 0, EUR |-> 0]] : k \in {"nodata", "error"}}

NoRatesCall == [kind |-> "none", rates |-> [USD |-> 100, EUR |-> 118]]

InitRateIdle ==
  /\ exchangeRatesCache = [rates |-> [USD |-> 100, EUR |-> 118], lastUpdated |-> 0]
  /\ clock = 1
  /\ xpc = [c \in Callers |-> "idle"]
  /\ xnow = [c \in Callers |-> 0]
  /\ xret = NoRatesCall
  /\ refreshed = <<>>

\* line 67: lastUpdated && (now - lastUpdated) < oneDayMs
IsFresh(cached, t) == cached.lastUpdated # 0 /\ (t - cached.lastUpdated) < OneDay

\* getExchangeRates up to `await axios.get` (lines 62-78)
RatesCall(c) ==
  /\ xpc[c] = "idle"
  /\ IF IsFresh(exchangeRatesCache, clock)
     THEN /\ xret' = [kind |-> "cached", rates |-> exchangeRatesCache.rates]
          /\ UNCHANGED <<xpc, xnow>>
     ELSE /\ xpc' = [xpc EXCEPT ![c] = "fetching"]
          /\ xnow' = [xnow EXCEPT ![c] = clock]
          /\ xret' = NoRatesCall
  /\ UNCHANGED <<exchangeRatesCache, clock, refreshed>>

\* the request settles (lines 80-103)
RatesSettle(c, answer) ==
  /\ xpc[c] = "fetching"
  /\ Len(refreshed) < MaxRefreshes
  /\ xpc' = [xpc EXCEPT ![c] = "idle"]
  /\ xnow' = [xnow EXCEPT ![c] = 0]
  /\ IF answer.kind = "rates"
     THEN /\ exchangeRatesCache' = [rates |-> answer.rates, lastUpdated |-> xnow[c]]
          /\ refreshed' = Append(refreshed, clock)
          /\ xret' = [kind |-> "refreshed", rates |-> answer.rates]
     ELSE /\ xret' = [kind |-> "failed", rates |-> exchangeRatesCache.rates]
          /\ UNCHANGED <<exchangeRatesCache, refreshed>>
  /\ UNCHANGED clock

\* twelve hours pass while no request to the rate service is in flight
RatesTick ==
  /\ clock < MaxClock
  /\ \A c \in Callers : xpc[c] = "idle"
  /\ clock' = clock + 1
  /\ xret' = NoRatesCall
  /\ UNCHANGED <<exchangeRatesCache, xpc, xnow, refreshed>>

----------------------------------------------------------------------------
(* The specification of the worker, the manual refresh and the foreground
   requests running in one process *)

Init ==
  /\ InitSync
  /\ store = [d \in DateUniverse |-> Absent]
  /\ InitRangeIdle
  /\ InitFetchIdle
  /\ InitTableIdle
  /\ InitTierIdle
  /\ InitRateIdle
  /\ InitCalcIdle

Next ==
  /\ \/ \E j \in Jobs : RunSmartWorker(j)
     \/ \E j \in Jobs : UsersDone(j)
     \/ \E j \in Jobs : JobFetchSettle(j)
     \/ \E j \in Jobs : JobSaveDone(j)
     \/ \E j \in Jobs : JobCacheDone(j)
     \/ \E j \in Jobs : InfoDone(j)
     \/ \E j \in Jobs : GraceDone(j)
     \/ \E j \in Jobs, d \in {Yesterday, Today} : ManualRefresh(j, d)
     \/ \E j \in Jobs : ManualNullResult(j)
     \/ \E r \in Reqs, range \in FgRanges : FgStoreRead(r, range)
     \/ \E r \in Reqs : FgCacheRead(r)
     \/ \E r \in Reqs : FgFetchOk(r)
     \/ \E r \in Reqs : FgFetchErr(r)
     \/ \E r \in Reqs : FgTimeout(r)
     \/ \E r \in Reqs : AbandonedSettle(r)
     \/ \E r \in Reqs : FgCacheWrite(r)
     \/ \E r \in Reqs : FgStoreWrite(r)
     \/ \E k \in FgRanges : CacheExpire(k)
  /\ UNCHANGED <<rangeVars, fetchVars, tableVars, tierVars, calcVars, metricVars,
               rateVars>>

Spec == Init /\ [][Next]_vars

(* The same process when every awaited store, cache and upstream call of a
   pass settles and every timer of a pass fires *)

\* the step of pass j that its position allows
PassStep(j) ==
  /\ \/ UsersDone(j) \/ JobFetchSettle(j) \/ JobSaveDone(j) \/ JobCacheDone(j)
     \/ InfoDone(j) \/ GraceDone(j) \/ ManualNullResult(j)
  /\ UNCHANGED <<rangeVars, fetchVars, tableVars, tierVars, calcVars, metricVars,
               rateVars>>

PassSettles == \A j \in Jobs : WF_vars(PassStep(j))

SpecLive == Init /\ [][Next]_vars /\ PassSettles

(* The specification of range reads over every content of the day store *)

InitRange ==
  /\ InitSync
  /\ store \in [DateUniverse -> OptReport]
  /\ InitRangeIdle
  /\ InitFetchIdle
  /\ InitTableIdle
  /\ InitTierIdle
  /\ InitRateIdle
  /\ InitCalcIdle

NextRange ==
  /\ \/ \E s \in DateUniverse, e \in DateUniverse : RangeAsk(s, e)
     \/ RangeRead
     \/ \E d \in DateUniverse, rep \in Reports : RangeSave(d, rep)
  /\ UNCHANGED <<syncVars, fetchVars, tableVars, tierVars, calcVars, metricVars,
               rateVars>>

SpecRange == InitRange /\ [][NextRange]_vars

(* The specification of saves and reads of the table gam_daily_data *)

InitTable ==
  /\ InitSync
  /\ store = [d \in DateUniverse |-> Absent]
  /\ InitRangeIdle
  /\ InitFetchIdle
  /\ InitTableIdle
  /\ InitTierIdle
  /\ InitRateIdle
  /\ InitCalcIdle

NextTable ==
  /\ \/ \E key \in TableKeys, rep \in TableReports : TableSave(key, rep)
     \/ \E key \in TableKeys : TableGet(key)
  /\ UNCHANGED <<syncVars, store, rangeVars, fetchVars, tierVars, calcVars, metricVars,
               rateVars>>

SpecTable == InitTable /\ [][NextTable]_vars

(* The specification of one fan-out over the accounts of a user *)

InitFetch ==
  /\ InitSync
  /\ store = [d \in DateUniverse |-> Absent]
  /\ InitRangeIdle
  /\ InitFetchIdle
  /\ InitTableIdle
  /\ InitTierIdle
  /\ InitRateIdle
  /\ InitCalcIdle

NextFetch ==
  /\ \/ FetchEnumerate
     \/ \E a \in 1..MaxAccounts, res \in UpstreamResults : AttemptSettle(a, res)
     \/ \E a \in 1..MaxAccounts : BackoffDone(a)
     \/ BatchDone
     \/ PauseDone
     \/ FetchReset
  /\ UNCHANGED <<syncVars, store, rangeVars, tableVars, tierVars, calcVars, metricVars,
               rateVars>>

SpecFetch == InitFetch /\ [][NextFetch]_vars

(* The specification of the tiered cache under redis outages, sqlite errors
   and the passing of time *)

InitCache ==
  /\ InitSync
  /\ store = [d \in DateUniverse |-> Absent]
  /\ InitRangeIdle
  /\ InitFetchIdle
  /\ InitTableIdle
  /\ InitTierIdle
  /\ InitRateIdle
  /\ InitCalcIdle

NextCache ==
  /\ \/ \E k \in CacheKeys, fail \in BOOLEAN : GetCachedData(k, fail)
     \/ \E k \in CacheKeys, v \in CacheValues, ttl \in Ttls, fail \in BOOLEAN :
          SetCachedData(k, v, ttl, fail)
     \/ \E u \in CacheUsers, fail \in BOOLEAN : ClearUserCache(u, fail)
     \/ ClearExpiredCache
     \/ Tick
     \/ RedisBreaks
     \/ RedisOnError
     \/ RedisOnConnect
     \/ HotCleared
  /\ UNCHANGED <<syncVars, store, rangeVars, fetchVars, tableVars, calcVars, metricVars,
               rateVars>>

SpecCache == InitCache /\ [][NextCache]_vars


(* The specification of aggregateDays applied to every sequence of at most
   MaxDays day entries with at most MaxRows rows each *)

InitAggregate ==
  /\ InitSync
  /\ store = [d \in DateUniverse |-> Absent]
  /\ InitRangeIdle
  /\ InitFetchIdle
  /\ InitTableIdle
  /\ InitTierIdle
  /\ InitRateIdle
  /\ daysIn \in SeqsUpTo(DayEntries, MaxDays)
  /\ daysOut = [called |-> FALSE, result |-> <<>>]
  /\ reportsIn = <<>> /\ currenciesIn = <<>> /\ dimensionIn = "DATE"
  /\ ratesIn = FallbackRates
  /\ metricsOut = NoMetricsCall

NextAggregate ==
  /\ AggregateCall
  /\ UNCHANGED <<syncVars, store, rangeVars, fetchVars, tableVars, tierVars, metricVars,
               rateVars>>

SpecAggregate == InitAggregate /\ [][NextAggregate]_vars

(* The specification of aggregateMetrics applied to the reports of at most
   MaxFanout accounts with at most MaxRows rows each, under two exchange-rate
   tables *)

InitMetrics ==
  /\ InitSync
  /\ store = [d \in DateUniverse |-> Absent]
  /\ InitRangeIdle
  /\ InitFetchIdle
  /\ InitTableIdle
  /\ InitTierIdle
  /\ InitRateIdle
  /\ daysIn = <<>> /\ daysOut = [called |-> FALSE, result |-> <<>>]
  /\ dimensionIn \in Dimensions
  /\ \E n \in 1..MaxFanout :
       /\ reportsIn \in [1..n -> SeqsUpTo(RawRows(dimensionIn), MaxRows)]
       /\ currenciesIn \in [1..n -> Currencies]
  /\ ratesIn \in RateTables
  /\ metricsOut = NoMetricsCall

NextMetrics ==
  /\ MetricsCall
  /\ UNCHANGED <<syncVars, store, rangeVars, fetchVars, tableVars, tierVars, calcVars,
               rateVars>>

SpecMetrics == InitMetrics /\ [][NextMetrics]_vars

(* The specification of concurrent getExchangeRates calls over two days *)

InitRates ==
  /\ InitSync
  /\ store = [d \in DateUniverse |-> Absent]
  /\ InitRangeIdle
  /\ InitFetchIdle
  /\ InitTableIdle
  /\ InitTierIdle
  /\ InitRateIdle
  /\ InitCalcIdle

NextRates ==
  /\ \/ \E c \in Callers : RatesCall(c)
     \/ \E c \in Callers, answer \in ServiceAnswers : RatesSettle(c, answer)
     \/ RatesTick
  /\ UNCHANGED <<syncVars, store, rangeVars, fetchVars, tableVars, tierVars, calcVars,
                 metricVars>>

SpecRates == InitRates /\ [][NextRates]_vars

----------------------------------------------------------------------------
(* Properties of the worker, the manual refresh and the foreground handler *)

InFlight == {j \in Jobs : jpc[j] # "idle"}
TickEvents == {"tick_start", "tick_running", "tick_user"}
IsResponse(out) == lastEvent.kind = "response" /\ lastEvent.out = out

\* C1: in any interleaving of runSmartWorker ticks and manualRefresh calls at
\* most one pass is in flight, workerRunning is set exactly while that pass is
\* in flight, and a tick or manual trigger that found a pass running has
\* started nothing and left nothing behind to run later.
C1_SingleFlight ==
  /\ Cardinality(InFlight) <= 1
  /\ workerRunning <=> InFlight # {}
  /\ lastEvent.kind \in {"tick_running", "manual_busy"} =>
       workerRunning /\ Cardinality(InFlight) = 1

\* a tick has just found the pass of another tick fetching and returned
C1_Witness ==
  /\ lastEvent.kind = "tick_running"
  /\ \E j \in Jobs : jpc[j] = "fetch" /\ jkind[j] = "tick"

\* C2: an upstream fetch of a worker pass and an upstream fetch of a foreground
\* statistics request are never in flight at the same time.
C2_NoOverlappingFetch ==
  ~((\E j \in Jobs : jpc[j] = "fetch") /\ (\E r \in Reqs : rfetch[r]))

\* C3: userRequestInProgress is true whenever a foreground request is inside
\* the upstream call.
C3_FlagCoversFetch ==
  (\E r \in Reqs : rpc[r] = "fetch") => userRequestInProgress

\* C4: a runSmartWorker tick taken while userRequestInProgress is true changes
\* neither workerRunning nor any invocation, request, store row or cache entry,
\* and an invocation of runSmartWorker becomes a pass only in a step taken with
\* the flag cleared.
C4_TickYieldsToUser ==
  [][/\ (userRequestInProgress /\ lastEvent'.kind \in TickEvents) =>
          /\ lastEvent'.kind # "tick_start"
          /\ UNCHANGED <<workerRunning, store, cache, jobVars, reqVars>>
     /\ (\E j \in Jobs : jpc[j] = "idle" /\ jpc'[j] = "users") =>
          ~userRequestInProgress
    ]_vars

\* a tick has just been turned away by the flag alone
C4_Witness ==
  /\ lastEvent.kind = "tick_user"
  /\ userRequestInProgress /\ ~workerRunning
  /\ InFlight = {}
  /\ \E r \in Reqs : rpc[r] = "fetch"

\* C5: a manualRefresh that passed the workerRunning guard is fetching the day,
\* saving it or caching it.
C5_ManualRefreshFetches ==
  \A j \in Jobs :
    (jkind[j] = "manual" /\ jpc[j] # "idle") => jpc[j] \in {"fetch", "save", "cache"}

\* C7: the handler reads the cache only after getDataForRange reported a miss
\* for the range, goes upstream only from the cache read and only when the
\* cache had no entry, and a store hit is answered with the cache and upstream
\* untouched.
C7_LookupOrder ==
  /\ [](/\ \A r \in Reqs : rpc[r] = "cache" => rlog[r] = {"store"}
        /\ \A r \in Reqs : rpc[r] = "fetch" =>
             rfetch[r] /\ rlog[r] = {"store", "cache", "upstream"}
        /\ IsResponse("store_hit") =>
             /\ lastEvent.log = {"store"}
             /\ GetDataForRange(store, lastEvent.range[1], lastEvent.range[2]) # Absent
        /\ IsResponse("cache_hit") => lastEvent.log = {"store", "cache"})
  /\ [][\A r \in Reqs :
          /\ (rpc[r] # "cache" /\ rpc'[r] = "cache") =>
               /\ rpc[r] = "idle"
               /\ GetDataForRange(store, rrange'[r][1], rrange'[r][2]) = Absent
               /\ UNCHANGED <<rfetch, cache, store>>
          /\ (~rfetch[r] /\ rfetch'[r]) =>
               /\ rpc[r] = "cache" /\ rpc'[r] = "fetch"
               /\ cache[rrange[r]] = Absent
          /\ (lastEvent'.kind = "response" /\ lastEvent'.out = "store_hit") =>
               UNCHANGED <<rfetch, cache, store, reqVars>>
       ]_vars

\* a two-day request went upstream although the store holds one of its days
C7_Witness ==
  \E r \in Reqs :
    /\ rpc[r] = "fetch" /\ rfetch[r]
    /\ rrange[r] = <<Yesterday, Today>>
    /\ store[Today] # Absent /\ store[Yesterday] = Absent
    /\ rlog[r] = {"store", "cache", "upstream"}

\* C8 as stated: every request answered with a fresh result has written it to
\* the cache and to the persistent store.
C8_WrittenToBoth ==
  IsResponse("fresh") => {"wroteCache", "wroteStore"} \subseteq lastEvent.log

\* C8: a request answered with a fresh result has written it to the cache; for
\* a single-day range it has then run saveDayData, which stored the day unless
\* the write itself failed; for a multi-day range it has written no store row.
C8_CacheAlwaysStoreSingleDay ==
  IsResponse("fresh") =>
    /\ {"store", "cache", "upstream", "wroteCache"} \subseteq lastEvent.log
    /\ IF lastEvent.range[1] = lastEvent.range[2]
       THEN /\ "wroteStore" \in lastEvent.log \/ "storeWriteFailed" \in lastEvent.log
            /\ "wroteStore" \in lastEvent.log => store[lastEvent.range[1]] # Absent
       ELSE /\ "wroteStore" \notin lastEvent.log
            /\ "storeWriteFailed" \notin lastEvent.log

\* a fresh two-day result was answered and no row of its days is in the store
C8_Witness ==
  /\ IsResponse("fresh")
  /\ lastEvent.range = <<Yesterday, Today>>
  /\ cache[<<Yesterday, Today>>] # Absent
  /\ store[Yesterday] = Absent /\ store[Today] = Absent

\* C9: the request whose 90 s timer fires first is answered with the timeout
\* outcome having written neither table, it takes no further step, and the
\* upstream call it left in flight changes neither table when it settles.
C9_TimeoutDiscards ==
  /\ [](/\ IsResponse("timeout") =>
             /\ lastEvent.log = {"store", "cache", "upstream"}
             /\ \E r \in Reqs : rpc[r] = "idle" /\ rfetch[r]
        /\ \A r \in Reqs : rfetch[r] => rpc[r] \in {"fetch", "idle"})
  /\ [][\A r \in Reqs :
          /\ (rpc[r] = "fetch" /\ rpc'[r] = "idle" /\ rfetch'[r]) =>
               /\ lastEvent'.kind = "response" /\ lastEvent'.out = "timeout"
               /\ UNCHANGED <<store, cache>>
          /\ (rpc[r] = "idle" /\ rfetch[r]) =>
               /\ rpc'[r] = "idle"
               /\ ~rfetch'[r] => UNCHANGED <<store, cache>>
       ]_vars

\* a request has just timed out and its upstream call is still in flight
C9_Witness ==
  /\ IsResponse("timeout")
  /\ \E r \in Reqs : rpc[r] = "idle" /\ rfetch[r]

----------------------------------------------------------------------------
(* Properties of range reads *)

DatesBetween(s, e) == {d \in DateUniverse : DateLeq(s, d) /\ DateLeq(d, e)}

\* C6: a getDataForRange over start # end that returned a report found a row
\* for every calendar date of [start, end]; with any date absent it returned
\* the miss.
C6_RangeHitIsComplete ==
  (qpc = "answered" /\ qStart # qEnd) =>
    /\ qResult # Absent => \A d \in DatesBetween(qStart, qEnd) : store[d] # Absent
    /\ (\E d \in DatesBetween(qStart, qEnd) : store[d] = Absent) => qResult = Absent

\* a three-day read missed because exactly its middle day has no row
C6_Witness ==
  /\ qpc = "answered" /\ qStart = <<1, 31>> /\ qEnd = <<2, 2>>
  /\ store[<<1, 31>>] # Absent /\ store[<<2, 1>>] = Absent /\ store[<<2, 2>>] # Absent
  /\ qResult = Absent

\* a <= b and a # b on the ISO strings
DateLess(a, b) == DateLeq(a, b) /\ a # b

\* the store of the example: only the second of three consecutive days has a row
ExampleStore ==
  [d \in {<<1, 1>>, <<1, 2>>, <<1, 3>>} |->
     IF d = <<1, 2>> THEN <<[accountCount |-> AccountCount, successfulAccounts |-> AccountCount]>>
     ELSE Absent]

\* C23: getMissingDates(start, end) answers a strictly ascending sequence whose
\* elements are exactly the dates of [start, end] without a row; with only
\* January 2 stored and the range January 1 to January 3 it answers
\* <<January 1, January 3>>.
C23_MissingDatesExact ==
  /\ qpc = "answered" =>
       /\ \A i \in 1..(Len(qMissing) - 1) : DateLess(qMissing[i], qMissing[i + 1])
       /\ {qMissing[i] : i \in 1..Len(qMissing)}
            = {d \in DatesBetween(qStart, qEnd) : store[d] = Absent}
  /\ GetMissingDates(ExampleStore, <<1, 1>>, <<1, 3>>) = << <<1, 1>>, <<1, 3>> >>

\* the read of three days across the end of January with only the middle day
\* stored answered the first and the third day
C23_Witness ==
  /\ qpc = "answered" /\ qStart = <<1, 31>> /\ qEnd = <<2, 2>>
  /\ store[<<1, 31>>] = Absent /\ store[<<2, 1>>] # Absent /\ store[<<2, 2>>] = Absent
  /\ qMissing = << <<1, 31>>, <<2, 2>> >>

----------------------------------------------------------------------------
(* Properties of the fan-out *)

\* C10: a fan-out over at least one account ends with status 200 and
\* success: true whatever the accounts did; every account was attempted, each
\* failed account has exactly one {account, error} entry carrying its last
\* error, and the accounts listed are exactly those that succeeded.
C10_PartialFailureNeverFatal ==
  (fpc = "done" /\ accts >= 1) =>
    LET rep == report[1]
        errs == rep.errors
        oks == rep.accounts
    IN  /\ rep.status = 200 /\ rep.success = TRUE
        /\ rep.accountCount = accts
        /\ \A a \in Accounts : attempt[a] >= 1 /\ astate[a] \in {"ok", "failed"}
        /\ \A a \in Accounts :
             astate[a] = "failed" <=>
               \E i \in 1..Len(errs) : errs[i].account = a /\ errs[i].error = lastError[a]
        /\ \A i \in 1..Len(errs), k \in 1..Len(errs) :
             errs[i].account = errs[k].account => i = k
        /\ \A i \in 1..Len(errs) : errs[i].error # "none"
        /\ \A a \in Accounts : astate[a] = "ok" <=> \E i \in 1..Len(oks) : oks[i] = a
        /\ rep.successfulAccounts = Len(oks) /\ rep.failedAccounts = Len(errs)
        /\ Len(oks) + Len(errs) = accts

\* every account of a two-batch fan-out failed, one of them by a thrown error
C10_Witness ==
  /\ fpc = "done" /\ accts = MaxAccounts
  /\ \A a \in Accounts : astate[a] = "failed"
  /\ \E a \in Accounts : lastError[a] = "throw"
  /\ \E a \in Accounts : lastError[a] = "rate"
  /\ report[1].success = TRUE

\* the account was rate limited at every attempt made so far
OnlyRateLimited(a) ==
  /\ Len(outcomes[a]) >= 1
  /\ \A i \in 1..Len(outcomes[a]) : outcomes[a][i] = "rate"

\* C11: an account that is rate limited at every attempt is attempted exactly
\* MaxRetries times, each wait before a retry is twice the one before it
\* starting from the base delay, and it ends as a failed account with an
\* {account, error} entry in a report that still has success: true.
C11_RateLimitBackoff ==
  /\ \A a \in Accounts : attempt[a] <= MaxRetries
  /\ \A a \in Accounts : OnlyRateLimited(a) =>
       /\ \A i \in 1..Len(slept[a]) :
            slept[a][i] = IF i = 1 THEN BaseDelayMs ELSE 2 * slept[a][i - 1]
       /\ \A i \in 1..Len(slept[a]) - 1 : slept[a][i] < slept[a][i + 1]
       /\ astate[a] \in {"ok", "failed"} =>
            /\ astate[a] = "failed"
            /\ Len(outcomes[a]) = MaxRetries /\ attempt[a] = MaxRetries
            /\ Len(slept[a]) = MaxRetries - 1
       /\ fpc = "done" =>
            /\ report[1].success = TRUE
            /\ \E i \in 1..Len(report[1].errors) :
                 report[1].errors[i] = [account |-> a, error |-> "rate"]

\* the fan-out is over: one account was rate limited three times, another answered
C11_Witness ==
  /\ fpc = "done" /\ accts >= 2
  /\ \E a \in Accounts : outcomes[a] = <<"rate", "rate", "rate">> /\ slept[a] = <<5000, 10000>>
  /\ \E a \in Accounts : astate[a] = "ok"

\* C12: an account whose attempt ended in a failure that is not a rate limit
\* gets no further attempt: every attempt before the last one of an account
\* ended with a rate limit.
C12_OnlyRateLimitRetried ==
  \A a \in Accounts :
    \A i \in 1..Len(outcomes[a]) :
      outcomes[a][i] \in {"fail", "throw"} =>
        /\ i = Len(outcomes[a])
        /\ astate[a] = "failed"

\* C13: the answer of a fetch whose account enumeration failed is never kept:
\* no store row, cache entry, request or pass holds it; the foreground request
\* that got it is answered with an error having written nothing, and the pass
\* that got it has logged the error and ended.
C13_EnumerationFailureIsFatal ==
  /\ \A d \in DateUniverse : store[d] # <<ErrorBody>>
  /\ \A k \in FgRanges : cache[k] # <<ErrorBody>>
  /\ \A r \in Reqs : rres[r] # <<ErrorBody>>
  /\ \A j \in Jobs : jres[j] # <<ErrorBody>>
  /\ (lastEvent.kind = "response" /\ "upstreamError" \in lastEvent.log) =>
       /\ lastEvent.out = "error"
       /\ lastEvent.log = {"store", "cache", "upstream", "upstreamError"}
  /\ lastEvent.kind = "pass_error" => ~workerRunning /\ InFlight = {}

\* a request was just answered with the error of its failed fetch; nothing is stored
C13_Witness ==
  /\ IsResponse("error") /\ "upstreamError" \in lastEvent.log
  /\ \A d \in DateUniverse : store[d] = Absent
  /\ \A k \in FgRanges : cache[k] = Absent

\* C14: whenever workerRunning is set, by a tick or by a manual refresh, it is
\* eventually cleared with no pass left in flight, whichever calls of the pass
\* succeed or fail.
C14_PassEnds == workerRunning ~> (~workerRunning /\ InFlight = {})

\* a pass has just caught an error, logged it and cleared workerRunning
C14_Witness ==
  /\ lastEvent.kind = "pass_error"
  /\ ~workerRunning /\ InFlight = {}

\* C15: a pass started by a tick neither starts a fetch nor writes a store row
\* in a step taken while userRequestInProgress is true.
C15_PassYieldsMidRun ==
  [][\A j \in Jobs :
       (/\ jkind[j] = "tick"
        /\ \/ jpc[j] # "fetch" /\ jpc'[j] = "fetch"
           \/ jpc[j] = "save" /\ store' # store)
       => ~userRequestInProgress
    ]_vars

\* C17 as stated: a request whose saveDayData failed is answered with an error.
C17_StoreFailurePropagates ==
  (lastEvent.kind = "response" /\ "storeWriteFailed" \in lastEvent.log) =>
    lastEvent.out = "error"

\* C17: a request whose saveDayData failed is still answered with the fresh
\* result: the failure is logged, the cache write before it stays, the store
\* is left as it was and the flag is cleared.
C17_StoreFailureLogged ==
  [][(lastEvent'.kind = "response" /\ "storeWriteFailed" \in lastEvent'.log) =>
       /\ lastEvent'.out = "fresh"
       /\ lastEvent'.log = {"store", "cache", "upstream", "wroteCache", "storeWriteFailed"}
       /\ lastEvent'.range[1] = lastEvent'.range[2]
       /\ UNCHANGED <<store, cache>>
       /\ ~userRequestInProgress'
    ]_vars

\* a single-day request was answered fresh; its day is cached but not stored
C17_Witness ==
  /\ IsResponse("fresh") /\ "storeWriteFailed" \in lastEvent.log
  /\ store[lastEvent.range[1]] = Absent
  /\ cache[lastEvent.range] # Absent

----------------------------------------------------------------------------
(* Properties of the table *)

\* C16: after any sequence of saves the table has at most one row per key, and
\* a getDayData of a key answers the report of the last save of that key (null
\* when there was none).
C16_UpsertLastWins ==
  /\ \A key \in TableKeys : Cardinality({r \in rows : r.key = key}) <= 1
  /\ got.asked =>
       IF lastSaved[got.key] = Absent THEN got.result = Absent
       ELSE /\ got.result # Absent
            /\ SameReport(got.result[1], lastSaved[got.key][1])

\* three saves, the third replaced the row of the second; the first wrote
\* another key; the key saved twice was then read
C16_Witness ==
  /\ got.asked /\ got.result # Absent
  /\ nextId = 4 /\ Cardinality(rows) = 2
  /\ \E r \in rows : r.key = got.key /\ r.id = 3
  /\ \E r \in rows : r.key # got.key /\ r.id = 1
  /\ got.result[1].successfulAccounts = 0
  /\ Field(got.result[1], "errors") = "undefined"

----------------------------------------------------------------------------
(* Properties of the tiered cache *)

\* C18: a getCachedData of a key that returns while the entry of the last
\* completed setCachedData(key, v, ttl) is unexpired (and no clearUserCache of
\* its user or later set of the key came in between) returns v; and when it
\* found the key missing in a reachable hot tier, the hot tier holds v again.
C18_SetThenGet ==
  \A k \in CacheKeys :
    (/\ cret.op = "get" /\ cret.key = k /\ cret.out # "error"
     /\ lastSet[k] # <<>> /\ now < lastSet[k][1].exp)
    => /\ cret.out = "value"
       /\ SameReport(cret.val[1], lastSet[k][1].v)
       /\ (cret.src = "durable" /\ ~cret.hotDown)
            => /\ HotLive(hot, now, k)
               /\ SameReport(Parse(hot[k][1].text), lastSet[k][1].v)

\* the rows of user u in gam_cache, expired ones included
RowsOfUser(d, u) == {k \in CacheKeys : k[1] = u /\ d[k] # <<>>}

\* C19: a getCachedData, setCachedData or clearUserCache made while redis is
\* disabled or its commands throw ends as the durable tier alone decides: the
\* read answers the unexpired sqlite row of the key, absent when there is none,
\* the write stores the row, the clear deletes the user's rows and answers how
\* many there were, and each rejects only when its sqlite statement failed.
C19_HotTierNeverFails ==
  [][(cret'.op # "none" /\ cret'.hotDown) =>
       LET k == cret'.key
           u == cret'.key[1]
       IN  IF cret'.durableFailed
           THEN cret'.out = "error" /\ durable' = durable
           ELSE /\ cret'.op = "get" =>
                     /\ durable' = durable
                     /\ IF durable[k] # <<>> /\ durable[k][1].expires_at > now
                        THEN /\ cret'.out = "value"
                             /\ cret'.val = <<Parse(durable[k][1].data)>>
                        ELSE cret'.out = "absent"
                /\ cret'.op = "set" =>
                     /\ cret'.out = "ok"
                     /\ durable'[k] # <<>>
                     /\ SameReport(Parse(durable'[k][1].data), cret'.val[1])
                     /\ durable'[k][1].expires_at = now + CallerTtl
                /\ cret'.op = "clear" =>
                     /\ cret'.out = "ok"
                     /\ cret'.changes = Cardinality(RowsOfUser(durable, u))
                     /\ RowsOfUser(durable', u) = {}
     ]_vars

\* a read answered from sqlite while redis, unreachable, holds another value
\* under the same key
C19_Witness ==
  /\ cret.op = "get" /\ cret.hotDown /\ cret.out = "value"
  /\ hot[cret.key] # <<>>
  /\ ~SameReport(Parse(hot[cret.key][1].text), cret.val[1])

\* C20: a getCachedData, setCachedData or clearUserCache whose sqlite statement
\* failed rejects: it answers neither a value, nor absent, nor success.
C20_DurableFailureIsExplicit ==
  (cret.op # "none" /\ cret.durableFailed) => cret.out = "error"

\* the read of a key whose unexpired row is in sqlite failed and was rejected
C20_Witness ==
  /\ cret.op = "get" /\ cret.durableFailed /\ cret.out = "error"
  /\ durable[cret.key] # <<>> /\ durable[cret.key][1].expires_at > now

\* C21: a value answered by getCachedData comes from an entry whose expires_at
\* (the time of its setCachedData plus its ttl) is still ahead, whether redis or
\* sqlite answered and however redis was re-seeded.
C21_NeverServedAfterExpiry ==
  (cret.op = "get" /\ cret.out = "value") =>
     IF cret.src = "hot" THEN hotOrigin[cret.key] > now
     ELSE durable[cret.key][1].expires_at > now

\* C22: a getCachedData of a key whose user had a clearUserCache complete, with
\* no setCachedData of the key since, answers absent; and a clearUserCache
\* leaves the entries of every other user as they were in both tiers.
C22_ClearedStaysAbsent ==
  /\ (cret.op = "get" /\ cret.out # "error" /\ cleared[cret.key])
        => cret.out = "absent"
  /\ cret.op = "clear" =>
        \A k \in CacheKeys :
          (k[1] # cret.key[1] /\ lastSet[k] # <<>>) => durable[k] # <<>>

----------------------------------------------------------------------------
(* Properties of aggregateDays *)

\* C24: aggregateDays of no day entries answers null, and of exactly one day
\* entry answers the report of that entry as it is.
C24_EmptyAndSingle ==
  daysOut.called =>
    /\ Len(daysIn) = 0 => daysOut.result = <<>>
    /\ Len(daysIn) = 1 => daysOut.result = <<daysIn[1].data>>

\* one day entry with two rows of the same domain came back with both rows
C24_Witness ==
  /\ daysOut.called /\ Len(daysIn) = 1
  /\ daysOut.result # <<>>
  /\ daysOut.result[1].hasData /\ Len(daysOut.result[1].data) = 2
  /\ daysOut.result[1].data[1].domain = "a.com"
  /\ daysOut.result[1].data[2].domain = "a.com"

\* the positions <<day, row>> of the rows handed to the call
RowPositions ==
  {p \in (1..MaxDays) \X (1..MaxRows) :
     /\ p[1] <= Len(daysIn) /\ p[2] <= Len(daysIn[p[1]].data.data)}
RowAt(p) == daysIn[p[1]].data.data[p[2]]

\* the domain key of a row as the claim words it
DomainKeyOf(record) ==
  CASE record.domain # "" -> record.domain
    [] record.domain = "" /\ record.adUnitName # "" -> record.adUnitName
    [] OTHER -> "unknown"

RECURSIVE SumAt(_, _)
SumAt(ps, field) ==
  IF ps = {} THEN 0
  ELSE LET p == CHOOSE q \in ps : TRUE
       IN  RowAt(p)[field] + SumAt(ps \ {p}, field)

\* x / y * scale rounded to two decimals, in hundredths; 0 when y is 0
Hundredths(x, y, scale) ==
  IF y = 0 THEN 0
  ELSE LET halves == (2 * x * scale * 100) \div y   \* the value in half hundredths
       IN  (halves + 1) \div 2

\* C25: for two or more day entries the answer has exactly one group per domain
\* key (domain, else ad-unit name, else "unknown") of the rows; the impressions,
\* clicks, revenue and unfilled impressions of a group are the sums over all
\* rows with its key, and its ctr and ecpm are computed from those sums, 0 when
\* the impressions are 0.
C25_GroupsAreSums ==
  (daysOut.called /\ Len(daysIn) >= 2) =>
    LET data == daysOut.result[1].data
        Of(key) == {p \in RowPositions : DomainKeyOf(RowAt(p)) = key}
    IN  /\ \A i, j \in 1..Len(data) : data[i].domain = data[j].domain => i = j
        /\ {data[i].domain : i \in 1..Len(data)}
             = {DomainKeyOf(RowAt(p)) : p \in RowPositions}
        /\ \A i \in 1..Len(data) :
             LET g == data[i]
                 ps == Of(g.domain)
             IN  /\ g.impressions = SumAt(ps, "impressions")
                 /\ g.clicks = SumAt(ps, "clicks")
                 /\ g.revenue = SumAt(ps, "revenue")
                 /\ g.unfilled_impressions = SumAt(ps, "unfilled_impressions")
                 /\ g.ctr = Hundredths(g.clicks, g.impressions, 100)
                 /\ g.ecpm = Hundredths(g.revenue, g.impressions, 10)

\* two days: the rows of a.com, with ctr 2.00 and 33.33, make one group with
\* ctr 2.09 and ecpm 1.57, and a row known only by its ad unit, without
\* impressions, makes a group with ctr 0
C25_Witness ==
  /\ daysOut.called /\ Len(daysIn) = 2
  /\ Len(daysIn[1].data.data) = 2 /\ Len(daysIn[2].data.data) = 1
  /\ \E i, j \in 1..Len(daysOut.result[1].data) :
       LET g == daysOut.result[1].data[i]
           h == daysOut.result[1].data[j]
       IN  /\ g.domain = "a.com" /\ g.impressions = 1003 /\ g.clicks = 21
           /\ g.revenue = 157 /\ g.ctr = 209 /\ g.ecpm = 157
           /\ h.domain = "unit1" /\ h.impressions = 0 /\ h.ctr = 0 /\ h.ecpm = 0

\* C26: for two or more day entries the totals are the sums over the groups,
\* requests_served = impressions + unfilled_impressions, pmr = impressions /
\* requests_served * 100 (0 when requests_served is 0) and active_view = pmr.
C26_TotalsAreSums ==
  (daysOut.called /\ Len(daysIn) >= 2) =>
    LET data == daysOut.result[1].data
        t == daysOut.result[1].totals
        Sum(field) == SumAt(RowPositions, field)
    IN  /\ t.impressions = Sum("impressions")
        /\ t.clicks = Sum("clicks")
        /\ t.revenue = Sum("revenue")
        /\ t.unfilled_impressions = Sum("unfilled_impressions")
        /\ t.impressions = SumOf(data, "impressions")
        /\ t.requests_served = t.impressions + t.unfilled_impressions
        /\ t.pmr = Hundredths(t.impressions, t.requests_served, 100)
        /\ t.active_view = t.pmr

\* totals of two groups: 1003 impressions and 500 unfilled give 1503 requests
\* and a pmr of 66.73
C26_Witness ==
  /\ daysOut.called /\ Len(daysIn) = 2
  /\ Len(daysOut.result[1].data) = 2
  /\ daysOut.result[1].totals.impressions = 1003
  /\ daysOut.result[1].totals.unfilled_impressions = 500
  /\ daysOut.result[1].totals.requests_served = 1503
  /\ daysOut.result[1].totals.pmr = 6673
  /\ daysOut.result[1].totals.active_view = 6673

----------------------------------------------------------------------------
(* Properties of the cross-account aggregation *)

\* the positions <<account, row>> of the report rows handed to the call
ReportPositions ==
  {p \in (1..MaxFanout) \X (1..MaxRows) :
     /\ p[1] <= Len(reportsIn) /\ p[2] <= Len(reportsIn[p[1]])}
ReportAt(p) == reportsIn[p[1]][p[2]]

\* the revenue of the row at p in USD by the table: revenue * rate
InUSD(p, rates) == (ReportAt(p).metrics[3] * rates[currenciesIn[p[1]]]) \div 100

RECURSIVE SumInUSD(_, _)
SumInUSD(ps, rates) ==
  IF ps = {} THEN 0
  ELSE LET p == CHOOSE q \in ps : TRUE
       IN  InUSD(p, rates) + SumInUSD(ps \ {p}, rates)

RECURSIVE SumRaw(_, _)
SumRaw(ps, i) ==
  IF ps = {} THEN 0
  ELSE LET p == CHOOSE q \in ps : TRUE
       IN  ReportAt(p).metrics[i] + SumRaw(ps \ {p}, i)

\* every account with a row has a currency of the table
AllRated(rates) == \A p \in ReportPositions : currenciesIn[p[1]] \in DOMAIN rates

\* the reports of the example: 100 of an EUR account, 50 of an USD account
ExampleReports ==
  AccountResults(<< <<[dimensionValue |-> "siteA_Content1", metrics |-> <<1000, 20, 10000, 0>>]>>,
                    <<[dimensionValue |-> "siteA_Content1", metrics |-> <<1000, 20, 5000, 0>>]>> >>,
                 <<"EUR", "USD">>, "AD_UNIT")

C28_RowsIgnoreRates ==
  metricsOut.called =>
    LET one == metricsOut.first[1]
        two == metricsOut.second[1]
        Into(key) ==
          {p \in ReportPositions :
             MetricsKey(TransformReportData(ReportAt(p), dimensionIn), dimensionIn,
                        AccountName(p[1])) = key}
    IN  /\ one.data = two.data
        /\ \A i \in 1..Len(one.data) :
             one.data[i].revenue = SumRaw(Into(one.data[i].key), 3)
        /\ \A f \in DOMAIN one.totals \ {"revenue", "ecpm"} : one.totals[f] = two.totals[f]

\* the two runs differ in the total revenue while the only row keeps 100 EUR
C28_Witness ==
  /\ metricsOut.called /\ Len(reportsIn) = 1 /\ currenciesIn = <<"EUR">>
  /\ Len(metricsOut.first[1].data) = 1
  /\ metricsOut.second[1].data[1].revenue = 10000
  /\ metricsOut.second[1].data[1].original_currency = "EUR"
  /\ metricsOut.first[1].totals.revenue = 11800
  /\ metricsOut.second[1].totals.revenue = 10500

\* two accounts, the first in EUR and the second in USD, each with one row of
\* 1000 impressions and 20 clicks for the same dimension value
TwoAccountScenario ==
  /\ metricsOut.called /\ currenciesIn = <<"EUR", "USD">>
  /\ Len(reportsIn[1]) = 1 /\ Len(reportsIn[2]) = 1
  /\ reportsIn[1][1].dimensionValue = reportsIn[2][1].dimensionValue
  /\ \A n \in 1..2 : reportsIn[n][1].metrics[1] = 1000 /\ reportsIn[n][1].metrics[2] = 20

\* C29 as stated: in the scenario under AD_UNIT, where both rows carry the same
\* domain, the report has one row for the domain with 2000 impressions, 40
\* clicks, ctr 2.00, accounts acc1 and acc2 and currencies EUR and USD, and the
\* total revenue is the converted sum.
C29_OneRowPerDomain ==
  (TwoAccountScenario /\ dimensionIn = "AD_UNIT") =>
    LET out == metricsOut.first[1]
    IN  /\ Len(out.data) = 1
        /\ out.data[1].impressions = 2000 /\ out.data[1].clicks = 40
        /\ out.data[1].ctr = 200
        /\ out.data[1].accounts = <<"acc1", "acc2">>
        /\ out.data[1].currencies = <<"EUR", "USD">>
        /\ out.totals.revenue = SumInUSD(ReportPositions, FallbackRates)

\* C29: in the scenario the rows of the two accounts merge only under the DATE
\* dimension, into one row of the date with 2000 impressions, 40 clicks, ctr
\* 2.00, accounts acc1 and acc2 and currencies EUR and USD; under AD_UNIT, ORDER
\* and LINE_ITEM each account keeps its own row of 1000 impressions, 20 clicks
\* and ctr 2.00; either way the totals are 2000 impressions, 40 clicks, ctr
\* 2.00 and the converted sum of the revenue.
C29_MergedOnlyByDate ==
  TwoAccountScenario =>
    LET out == metricsOut.first[1]
    IN  /\ IF dimensionIn = "DATE"
           THEN /\ Len(out.data) = 1
                /\ out.data[1].impressions = 2000 /\ out.data[1].clicks = 40
                /\ out.data[1].ctr = 200
                /\ out.data[1].accounts = <<"acc1", "acc2">>
                /\ out.data[1].currencies = <<"EUR", "USD">>
                /\ out.data[1].first.date = ParseDateValue(reportsIn[1][1].dimensionValue)
           ELSE /\ Len(out.data) = 2
                /\ \A n \in 1..2 :
                     /\ out.data[n].impressions = 1000 /\ out.data[n].clicks = 20
                     /\ out.data[n].ctr = 200
                     /\ out.data[n].accounts = <<AccountName(n)>>
                     /\ out.data[n].currencies = <<currenciesIn[n]>>
        /\ out.totals.impressions = 2000 /\ out.totals.clicks = 40
        /\ out.totals.ctr = 200
        /\ out.totals.revenue = SumInUSD(ReportPositions, FallbackRates)

\* the scenario under DATE with 100 EUR and 50 USD: one row, total 168
C29_Witness ==
  /\ TwoAccountScenario /\ dimensionIn = "DATE"
  /\ reportsIn[1][1].metrics[3] = 10000 /\ reportsIn[2][1].metrics[3] = 5000
  /\ Len(metricsOut.first[1].data) = 1
  /\ metricsOut.first[1].data[1].impressions = 2000
  /\ metricsOut.first[1].data[1].revenue = 15000
  /\ metricsOut.first[1].totals.revenue = 16800

\* C30: under AD_UNIT, ORDER and LINE_ITEM the report has exactly one row per
\* distinct (dimension value, account) pair of the report rows, and that row
\* sums the impressions of the rows of its pair.
C30_OneRowPerValueAndAccount ==
  (metricsOut.called /\ dimensionIn \in {"AD_UNIT", "ORDER", "LINE_ITEM"}) =>
    LET out == metricsOut.first[1]
        pairs == {<<ReportAt(p).dimensionValue, AccountName(p[1])>> : p \in ReportPositions}
        Of(pair) == {p \in ReportPositions :
                       <<ReportAt(p).dimensionValue, AccountName(p[1])>> = pair}
    IN  /\ Len(out.data) = Cardinality(pairs)
        /\ \A pair \in pairs :
             \E i \in 1..Len(out.data) :
               /\ out.data[i].accounts[1] = pair[2]
               /\ out.data[i].impressions = SumRaw(Of(pair), 1)

----------------------------------------------------------------------------
(* Properties of the batches of one fan-out *)

\* the number of the batch whose slice holds account a
BatchNumber(a) == ((a - 1) \div BATCH_SIZE) + 1

\* the accounts whose getAccountStatistics call has started and not settled
Unsettled == {a \in Accounts : astate[a] \in {"inflight", "backoff"}}

FanoutReport == fpc = "done" /\ report # Absent /\ accts > 0 /\ report[1].status = 200

\* C36: every entry of the errors list names an account whose
\* getAccountStatistics ended in failure, with that account's last error, and
\* no account is named twice.
C36_ErrorsNameTheFailedAccount ==
  FanoutReport =>
    LET errors == report[1].errors
    IN  /\ \A i \in 1..Len(errors) :
             /\ errors[i].account \in Accounts
             /\ astate[errors[i].account] = "failed"
             /\ errors[i].error = lastError[errors[i].account]
        /\ \A i, k \in 1..Len(errors) : i # k => errors[i].account # errors[k].account

\* of four accounts the second and the fourth, the only one of its batch, failed
C36_Witness ==
  /\ FanoutReport /\ accts = BATCH_SIZE + 1
  /\ astate[1] = "ok" /\ astate[2] = "failed" /\ astate[3] = "ok"
  /\ astate[BATCH_SIZE + 1] = "failed"
  /\ Len(report[1].errors) = 2
  /\ report[1].errors[1].account = 2
  /\ report[1].errors[2].account = BATCH_SIZE + 1

\* C40: in the answer of a fan-out over at least one account the successful and
\* the failed accounts add up to accountCount, the errors list has one entry
\* per failed account and the accounts list one per successful account.
C40_CountsAddUp ==
  FanoutReport =>
    LET r == report[1]
    IN  /\ r.accountCount = accts
        /\ r.successfulAccounts + r.failedAccounts = r.accountCount
        /\ Len(r.errors) = r.failedAccounts
        /\ r.successfulAccounts = Cardinality({a \in Accounts : astate[a] = "ok"})
        /\ r.failedAccounts = Cardinality({a \in Accounts : astate[a] = "failed"})

\* two of four accounts failed
C40_Witness ==
  /\ FanoutReport /\ report[1].accountCount = 4
  /\ report[1].successfulAccounts = 2 /\ report[1].failedAccounts = 2
  /\ Len(report[1].errors) = 2

----------------------------------------------------------------------------
(* Properties of the refresh of yesterday *)

\* what yesterday's stored record satisfies of the three tests
YesterdayNeeds(info) ==
  (IF info = Absent THEN {"missing"} ELSE {})
  \cup (IF info # Absent /\ info[1].successfulAccounts < info[1].accountCount
        THEN {"incomplete"} ELSE {})
  \cup (IF info # Absent THEN {"stale"} ELSE {})

\* C32: a worker pass starts the fetch of yesterday only out of the wait that
\* follows the decision to refresh, writes yesterday only after that fetch, and
\* takes the decision only with an hour inside the window and a record of
\* yesterday that is missing, has fewer successful accounts than accounts, or
\* is older than the threshold.
C32_YesterdayOnlyWhenNeeded ==
  [][\A j \in Jobs :
       /\ (jpc[j] # "grace" /\ jpc'[j] = "grace") =>
            /\ jpc[j] = "info" /\ jhour[j]
            /\ lastEvent'.kind = "midnight_sync"
            /\ lastEvent'.log # {}
            /\ lastEvent'.log \subseteq YesterdayNeeds(store[Yesterday])
       /\ (jkind'[j] = "tick" /\ jday'[j] = Yesterday /\ jpc'[j] = "fetch"
             /\ jpc[j] # "fetch") =>
            jpc[j] = "grace" /\ jhour[j]
       /\ (jkind'[j] = "tick" /\ jday'[j] = Yesterday
             /\ jpc'[j] \in {"save", "cache"} /\ jpc[j] # jpc'[j]) =>
            jday[j] = Yesterday /\ jpc[j] \in {"fetch", "save"}
       /\ (jkind[j] = "tick" /\ jpc[j] = "save" /\ jpc'[j] # "save") =>
            \A d \in DOMAIN store : d # jday[j] => store'[d] = store[d]
    ]_vars

\* a pass of the hour window has decided to refresh yesterday, whose record
\* was complete but too old
C32_Witness ==
  /\ lastEvent.kind = "midnight_sync" /\ lastEvent.log = {"stale"}
  /\ \E j \in Jobs : jpc[j] = "grace" /\ jkind[j] = "tick" /\ jhour[j]
  /\ store[Yesterday] # Absent
  /\ store[Yesterday][1].successfulAccounts = store[Yesterday][1].accountCount

----------------------------------------------------------------------------
(* Properties of the exchange-rate snapshot *)

\* C33: any two replacements of the rates by the rate service's answer are at
\* least 24 hours apart, also when several getExchangeRates calls overlap.
C33_RefreshOncePerDay ==
  \A i, k \in 1..Len(refreshed) :
    i < k => refreshed[k] - refreshed[i] >= OneDay

\* C33, second half: a call whose request to the rate service fails leaves the
\* table and its age as they were and returns that table.
C33_FailureKeepsTable ==
  [][xret'.kind = "failed" =>
       /\ exchangeRatesCache' = exchangeRatesCache
       /\ xret'.rates = exchangeRatesCache.rates]_vars

----------------------------------------------------------------------------
(* Properties of the derived totals *)

\* C34: in the totals of every cross-account report active_view equals pmr,
\* and pmr is impressions / requests_served * 100 (0 without requests).
C34_ActiveViewIsPmr ==
  metricsOut.called =>
    LET t == metricsOut.first[1].totals
    IN  /\ t.pmr = Hundredths(t.impressions, t.requests_served, 100)
        /\ t.active_view = t.pmr

----------------------------------------------------------------------------
(* Properties of the contributor lists *)

NoDuplicates(seq) ==
  \A i, k \in 1..Len(seq) : i # k => seq[i] # seq[k]

\* C35: in every row of a cross-account report the accounts list and the
\* currencies list name each contributor once, however many report rows were
\* merged into the row.
C35_ContributorsAreSets ==
  metricsOut.called =>
    \A i \in 1..Len(metricsOut.first[1].data) :
      /\ NoDuplicates(metricsOut.first[1].data[i].accounts)
      /\ NoDuplicates(metricsOut.first[1].data[i].currencies)

----------------------------------------------------------------------------
(* Properties of the revenue of a range *)

\* the entry getRangeData returns for a day whose stored report is `out`: the
\* rows keep the dimension fields of the first report row merged into them
StoredDay(out) ==
  [data |-> [hasData |-> TRUE,
             data |-> [i \in 1..Len(out.data) |->
                         LET r == out.data[i]
                         IN  [domain |-> IF "domain" \in DOMAIN r.first
                                         THEN r.first.domain ELSE "",
                              adUnitName |-> IF "adUnitName" \in DOMAIN r.first
                                             THEN r.first.adUnitName ELSE "",
                              impressions |-> r.impressions, clicks |-> r.clicks,
                              revenue |-> r.revenue,
                              unfilled_impressions |-> r.unfilled_impressions]]]]

\* C37: for a range of two stored days the total revenue of the report that
\* aggregateDays returns is the sum of the total revenues of the two stored
\* reports, whatever the currencies of the accounts.
C37_RangeRevenueIsSumOfDays ==
  metricsOut.called =>
    LET one == metricsOut.first[1]
        two == metricsOut.second[1]
        range == aggregateDays(<<StoredDay(one), StoredDay(two)>>)[1]
    IN  range.totals.revenue = one.totals.revenue + two.totals.revenue

----------------------------------------------------------------------------
(* Properties of the replacement of a stored day *)

\* C38: a step that replaces the stored report of a day stores one with at
\* least as many successful accounts as the report it replaces.
C38_NeverReplacedByWorse ==
  [][\A d \in DOMAIN store :
       (store[d] # Absent /\ store'[d] # store[d]) =>
         /\ store'[d] # Absent
         /\ store'[d][1].successfulAccounts >= store[d][1].successfulAccounts]_vars

----------------------------------------------------------------------------
(* Properties of the clearing of userRequestInProgress *)

\* the foreground requests between setUserRequestActive(true) and their answer
FlaggedRequests == {r \in Reqs : rpc[r] \in {"fetch", "cacheW", "storeW"}}

\* the manual refreshes between their first line and their finally block
ManualPasses == {j \in Jobs : jkind[j] = "manual" /\ jpc[j] # "idle"}

\* C39: a foreground request that has answered fresh, with an error or with a
\* timeout has left the flag false; whenever no foreground request is between
\* setting the flag and its answer and no manual refresh is running the flag
\* is false, so a tick is postponed for a user request only while there is one.
C39_FlagClearedOnEveryExit ==
  /\ (lastEvent.kind = "response" /\ lastEvent.out \in {"fresh", "error", "timeout"})
       => ~userRequestInProgress
  /\ (FlaggedRequests = {} /\ ManualPasses = {}) => ~userRequestInProgress
  /\ lastEvent.kind = "tick_user" => (FlaggedRequests # {} \/ ManualPasses # {})

\* a request that had set the flag has just timed out, nothing else is running
C39_Witness ==
  /\ IsResponse("timeout") /\ "upstream" \in lastEvent.log
  /\ FlaggedRequests = {} /\ ManualPasses = {}
  /\ ~userRequestInProgress

====
